---- MODULE Spec2Model ----
\* Scheduler adapter of mavis (src/mavis/schedule/scheduler.py): submit, update_info
\* and cancel of the SLURM, SGE and Torque back-ends over a small job DAG.
\*
\* Python strings are modelled as tuples of one-character strings, so that
\* formatting, stripping and regular-expression matching are computed.
\* Job statuses are plain words. Job attributes that only add options to the
\* submission command (queue, memory_limit, time_limit, import_env, name, stdout,
\* mail_type, mail_user, concurrency_limit) are not part of the model.
EXTENDS Integers, Sequences, FiniteSets, TLC

VARIABLES sched, tasks, job_ident, status, status_comment, task_status, task_comment, last, nops,
          statuses, cumulative, disk, stage, result

vars == <<sched, tasks, job_ident, status, status_comment, task_status, task_comment, last, nops,
          statuses, cumulative, disk, stage, result>>

\* the jobs and the record of the calls made on them
schedVars == <<sched, tasks, job_ident, status, status_comment, task_status, task_comment, last, nops>>

\* a list of statuses and its cumulative state
cumVars == <<statuses, cumulative>>

\* an output directory, the PipelineStageRun made for it and what its report gave
checkVars == <<disk, stage, result>>

\* ------------------------------------------------------------------ bounds
MaxOps == 3

MaxTasks == 2

MaxStates == 3

MaxJobs == 2

MaxLines == 12

MaxMarked == 2

MaxLibs == 2

MaxTime == 2

MaxIndex == 11

MaxRuns == 2

MaxRand == 2

MaxSections == 4

\* ------------------------------------------------------------------ strings
\* Python None; no character string equals it
None == <<"None">>

EmptyStr == <<>>

UpperAlpha ==
    <<"A", "B", "C", "D", "E", "F", "G", "H", "I", "J", "K", "L", "M", "N", "O", "P", "Q", "R", "S", "T", "U", "V", "W", "X", "Y", "Z">>

LowerAlpha ==
    <<"a", "b", "c", "d", "e", "f", "g", "h", "i", "j", "k", "l", "m", "n", "o", "p", "q", "r", "s", "t", "u", "v", "w", "x", "y", "z">>

Digits ==
    <<"0", "1", "2", "3", "4", "5", "6", "7", "8", "9">>

Whitespace == {" ", "\n", "\t", "\r"}

IndexIn(seq, c) == IF \E i \in 1..Len(seq) : seq[i] = c
                   THEN CHOOSE i \in 1..Len(seq) : seq[i] = c
                   ELSE 0

IsDigit(c) == IndexIn(Digits, c) # 0

AllDigits(s) == Len(s) > 0 /\ \A i \in 1..Len(s) : IsDigit(s[i])

\* str.lower(), as re.IGNORECASE compares
LowerChar(c) == IF IndexIn(UpperAlpha, c) # 0 THEN LowerAlpha[IndexIn(UpperAlpha, c)] ELSE c

LowerStr(s) == [i \in 1..Len(s) |-> LowerChar(s[i])]

\* s[i:j] of Python, 1-based inclusive here
Slice(s, i, j) == IF i > j THEN <<>> ELSE SubSeq(s, i, j)

StartsWith(s, p) == Len(s) >= Len(p) /\ Slice(s, 1, Len(p)) = p

EndsWith(s, p) == Len(s) >= Len(p) /\ Slice(s, Len(s) - Len(p) + 1, Len(s)) = p

\* str.strip()
Strip(s) ==
    LET keep == {i \in 1..Len(s) : s[i] \notin Whitespace}
        Min(S) == CHOOSE x \in S : \A y \in S : x <= y
        Max(S) == CHOOSE x \in S : \A y \in S : x >= y
    IN IF keep = {} THEN <<>> ELSE SubSeq(s, Min(keep), Max(keep))

\* str(n) for n >= 0
RECURSIVE Str(_)
Str(n) == IF n < 10 THEN <<Digits[n + 1]>> ELSE Str(n \div 10) \o <<Digits[(n % 10) + 1]>>

\* int(s) for a string of decimal digits
RECURSIVE ToInt(_)
ToInt(s) == IF Len(s) = 0 THEN 0 ELSE 10 * ToInt(Slice(s, 1, Len(s) - 1)) + (IndexIn(Digits, s[Len(s)]) - 1)

\* delim.join(parts)
RECURSIVE Join(_, _)
Join(delim, parts) ==
    IF Len(parts) = 0 THEN <<>>
    ELSE IF Len(parts) = 1 THEN parts[1]
    ELSE parts[1] \o delim \o Join(delim, Tail(parts))

\* 'template{}'.format(x): every dependency template ends in its only placeholder
Format(template, x) == template \o x

Range(seq) == {seq[i] : i \in 1..Len(seq)}

\* truth value of a str-or-None
Truthy(s) == s # None /\ s # EmptyStr

\* ------------------------------------------------------------------ job model
JOB_STATUS ==
    {"NOT_SUBMITTED", "SUBMITTED", "PENDING", "RUNNING", "COMPLETED", "FAILED", "CANCELLED", "ERROR", "UNKNOWN"}

\* the pipeline: validate array V, annotate array A after V, pairing job P after A and V
JobNames == {"V", "A", "P"}

IsArrayJob(j) == j \in {"V", "A"}

Dependencies(j) ==
    CASE j = "V" -> <<>>
      [] j = "A" -> <<"V">>
      [] j = "P" -> <<"A", "V">>

TaskIdents == {Str(k) : k \in 1..MaxTasks}

Schedulers == {"SLURM", "SGE", "TORQUE"}

\* ------------------------------------------------------------------ back-end constants
SLURM_ARRAY_DEPENDENCY ==
    <<"-", "-", "d", "e", "p", "e", "n", "d", "e", "n", "c", "y", "=", "a", "f", "t", "e", "r", "c", "o", "r", "r", ":">>

SLURM_JOB_DEPENDENCY ==
    <<"-", "-", "d", "e", "p", "e", "n", "d", "e", "n", "c", "y", "=", "a", "f", "t", "e", "r", "o", "k", ":">>

SGE_ARRAY_DEPENDENCY ==
    <<"-", "h", "o", "l", "d", "_", "j", "i", "d", "_", "a", "d", " ">>

SGE_JOB_DEPENDENCY ==
    <<"-", "h", "o", "l", "d", "_", "j", "i", "d", " ">>

TORQUE_ARRAY_DEPENDENCY ==
    <<"-", "W", " ", "d", "e", "p", "e", "n", "d", "=", "a", "f", "t", "e", "r", "o", "k", "a", "r", "r", "a", "y", ":">>

TORQUE_JOB_DEPENDENCY ==
    <<"-", "W", " ", "d", "e", "p", "e", "n", "d", "=", "a", "f", "t", "e", "r", "o", "k", ":">>

ARRAY_DEPENDENCY(cls) ==
    CASE cls = "SLURM" -> SLURM_ARRAY_DEPENDENCY
      [] cls = "SGE" -> SGE_ARRAY_DEPENDENCY
      [] cls = "TORQUE" -> TORQUE_ARRAY_DEPENDENCY

JOB_DEPENDENCY(cls) ==
    CASE cls = "SLURM" -> SLURM_JOB_DEPENDENCY
      [] cls = "SGE" -> SGE_JOB_DEPENDENCY
      [] cls = "TORQUE" -> TORQUE_JOB_DEPENDENCY

DEPENDENCY_DELIM_Colon(cls) == <<":">>

DEPENDENCY_DELIM(cls) == IF cls = "SGE" THEN <<",">> ELSE <<":">>

\* ------------------------------------------------------------------ scheduler responses
SlurmPrefix ==
    <<"s", "u", "b", "m", "i", "t", "t", "e", "d", " ", "b", "a", "t", "c", "h", " ", "j", "o", "b", " ">>

SgeYourJob ==
    <<"y", "o", "u", "r", " ", "j", "o", "b">>

SgeArray ==
    <<"-", "a", "r", "r", "a", "y">>

SgeSubmitted ==
    <<" ", "h", "a", "s", " ", "b", "e", "e", "n", " ", "s", "u", "b", "m", "i", "t", "t", "e", "d">>

RespSlurmA ==
    <<"S", "u", "b", "m", "i", "t", "t", "e", "d", " ", "b", "a", "t", "c", "h", " ", "j", "o", "b", " ", "1", "0", "0">>

RespSlurmB ==
    <<"s", "u", "b", "m", "i", "t", "t", "e", "d", " ", "b", "a", "t", "c", "h", " ", "j", "o", "b", " ", "1", "0", "1", "\n">>

RespSgeA ==
    <<"Y", "o", "u", "r", " ", "j", "o", "b", " ", "1", "0", "0", " ", "(", "\"", "J", "\"", ")", " ", "h", "a", "s", " ", "b", "e", "e", "n", " ", "s", "u", "b", "m", "i", "t", "t", "e", "d">>

RespSgeB ==
    <<"Y", "o", "u", "r", " ", "j", "o", "b", "-", "a", "r", "r", "a", "y", " ", "1", "0", "1", ".", "1", "-", "2", ":", "1", " ", "(", "\"", "J", "\"", ")", " ", "h", "a", "s", " ", "b", "e", "e", "n", " ", "s", "u", "b", "m", "i", "t", "t", "e", "d", "\n">>

RespTorque ==
    <<"1", "0", "2", "[", "]", ".", "t", "\n">>

RespEmpty == <<>>

\* what a submission command can print when it exits with status 0
Responses == {RespSlurmA, RespSlurmB, RespSgeA, RespSgeB, RespTorque, RespEmpty}

\* the result of one subprocess.check_output call: a non-zero exit, or the output
ProcessFailed == <<"CalledProcessError">>

Outputs == Responses \cup {ProcessFailed}

\* ------------------------------------------------------------------ response parsing
\* end of the longest run of digits of s that starts at i (i - 1 when there is none)
DigitRunEnd(s, i) ==
    LET ends == {e \in i..Len(s) : \A k \in i..e : IsDigit(s[k])}
    IN IF ends = {} THEN i - 1 ELSE CHOOSE e \in ends : \A f \in ends : f <= e

CharAt(s, i) == IF i >= 1 /\ i <= Len(s) THEN s[i] ELSE ""

SlurmMatch_Group0(content) ==
    LET rest == Slice(content, Len(SlurmPrefix) + 1, Len(content))
    IN IF StartsWith(LowerStr(content), SlurmPrefix) /\ AllDigits(rest) THEN content ELSE None

\* re.match(r'^submitted batch job (\d+)$', content, re.IGNORECASE): group(1), or None
SlurmMatch(content) ==
    LET rest == Slice(content, Len(SlurmPrefix) + 1, Len(content))
    IN IF StartsWith(LowerStr(content), SlurmPrefix) /\ AllDigits(rest) THEN rest ELSE None

\* re.match(r'^Your job(-array)? (\d+)(\.\d+-\d+:1)? .* has been submitted$', content,
\* re.IGNORECASE): group(2), or None
SgeMatch(content) ==
    LET low == LowerStr(content)
        n == Len(content)
        p1 == Len(SgeYourJob)
        p2 == IF StartsWith(Slice(low, p1 + 1, n), SgeArray) THEN p1 + Len(SgeArray) ELSE p1
        dStart == p2 + 2
        dEnd == DigitRunEnd(content, dStart)
        \* the optional group (\.\d+-\d+:1)
        aEnd == DigitRunEnd(content, dEnd + 2)
        bEnd == DigitRunEnd(content, aEnd + 2)
        group3 == /\ CharAt(content, dEnd + 1) = "."
                  /\ aEnd >= dEnd + 2
                  /\ CharAt(content, aEnd + 1) = "-"
                  /\ bEnd >= aEnd + 2
                  /\ CharAt(content, bEnd + 1) = ":"
                  /\ CharAt(content, bEnd + 2) = "1"
        gEnd == IF group3 THEN bEnd + 2 ELSE dEnd
        anyStart == gEnd + 2
        anyEnd == n - Len(SgeSubmitted)
    IN IF /\ StartsWith(low, SgeYourJob)
          /\ CharAt(content, p2 + 1) = " "
          /\ dEnd >= dStart
          /\ CharAt(content, gEnd + 1) = " "
          /\ anyEnd >= anyStart - 1
          /\ \A i \in anyStart..anyEnd : content[i] # "\n"
          /\ EndsWith(low, SgeSubmitted)
       THEN Slice(content, dStart, dEnd)
       ELSE None

\* ------------------------------------------------------------------ state
\* no stage run has been made and nothing has been reported
NoStage == [name |-> ""]

NoReport == [word |-> ""]

\* no list of statuses is folded
NoCumulative ==
    /\ statuses = <<>>
    /\ cumulative = "NOT_SUBMITTED"

\* no output directory is looked at
NoChecker ==
    /\ disk = [dirs |-> {}]
    /\ stage = NoStage
    /\ result = NoReport

\* Job(...), ArrayJob(...): no identifier, NOT_SUBMITTED, one Task per task index
Init ==
    /\ sched \in Schedulers
    /\ tasks \in {t \in [JobNames -> 0..MaxTasks] : \A j \in JobNames : (t[j] > 0) <=> IsArrayJob(j)}
    /\ job_ident = [j \in JobNames |-> None]
    /\ status = [j \in JobNames |-> "NOT_SUBMITTED"]
    /\ status_comment = [j \in JobNames |-> EmptyStr]
    /\ task_status = [j \in JobNames |-> [k \in 1..tasks[j] |-> "NOT_SUBMITTED"]]
    /\ task_comment = [j \in JobNames |-> [k \in 1..tasks[j] |-> EmptyStr]]
    /\ last = [op |-> "init", job |-> "", task_ident |-> None, cascade |-> FALSE, resubmit |-> FALSE,
               err |-> "none", cmds |-> <<>>, content |-> None, reported |-> <<>>]
    /\ nops = 0
    /\ NoCumulative
    /\ NoChecker

\* no scheduler is used: one pipeline of one-task arrays that is never submitted
NoScheduler ==
    /\ sched = "SGE"
    /\ tasks = [j \in JobNames |-> IF IsArrayJob(j) THEN 1 ELSE 0]
    /\ job_ident = [j \in JobNames |-> None]
    /\ status = [j \in JobNames |-> "NOT_SUBMITTED"]
    /\ status_comment = [j \in JobNames |-> EmptyStr]
    /\ task_status = [j \in JobNames |-> [k \in 1..tasks[j] |-> "NOT_SUBMITTED"]]
    /\ task_comment = [j \in JobNames |-> [k \in 1..tasks[j] |-> EmptyStr]]
    /\ last = [op |-> "init", job |-> "", task_ident |-> None, cascade |-> FALSE, resubmit |-> FALSE,
               err |-> "none", cmds |-> <<>>, content |-> None, reported |-> <<>>]
    /\ nops = 0

\* the record of a call: its arguments, the exception it raised ("none" when it
\* returned), the scheduler commands it ran, the output of the last submission command
\* and the rows that the first status command of an update reported
Call(op, job, task_ident, cascade, resubmit) ==
    [op |-> op, job |-> job, task_ident |-> task_ident, cascade |-> cascade, resubmit |-> resubmit]

Outcome(call, err, cmds, content) ==
    [op |-> call.op, job |-> call.job, task_ident |-> call.task_ident, cascade |-> call.cascade,
     resubmit |-> call.resubmit, err |-> err, cmds |-> cmds, content |-> content, reported |-> <<>>]

\* the outcome of an update whose status command reported rows
Reported(outcome, rows) == [outcome EXCEPT !.reported = rows]

\* the call raises: nothing was assigned
RaiseWith(outcome) ==
    /\ last' = outcome
    /\ nops' = nops + 1
    /\ UNCHANGED <<sched, tasks, job_ident, status, status_comment, task_status, task_comment>>

Raise(call, err, cmds, content) == RaiseWith(Outcome(call, err, cmds, content))

Command(tool, dep, array, arg) == [tool |-> tool, dep |-> dep, array |-> array, arg |-> arg]

\* ------------------------------------------------------------------ dependencies
\* cls.submit(dependency, task_ident, cascade=cascade): submit is an instance method
\* looked up on the class, so self is bound to the dependency and job to task_ident
\* (None or an int); the first read of job.job_ident raises AttributeError
ClsSubmit(self, job, cascade) ==
    IF job \in JobNames THEN "none" ELSE "AttributeError"

FirstUnsubmitted_None(job) == 0

\* first dependency of job, in declaration order, that has no identifier (0: none)
FirstUnsubmitted(job) ==
    LET deps == Dependencies(job)
        missing == {i \in 1..Len(deps) : ~Truthy(job_ident[deps[i]])}
    IN IF missing = {} THEN 0 ELSE CHOOSE i \in missing : \A k \in missing : i <= k

FormatDependencies_Unchecked(cls, job, task_ident, cascade) ==
    LET deps == Dependencies(job)
    IN [err |-> "none",
        flag |-> Format(JOB_DEPENDENCY(cls),
                        Join(DEPENDENCY_DELIM(cls), [k \in 1..Len(deps) |-> job_ident[deps[k]]]))]

\* Scheduler.format_dependencies: the exception raised ("none") and the flag returned
FormatDependencies(cls, job, task_ident, cascade) ==
    LET deps == Dependencies(job)
    IN IF Len(deps) = 1 /\ IsArrayJob(job) /\ IsArrayJob(deps[1]) /\ task_ident = None
       THEN LET dependency == deps[1]
            IN IF tasks[dependency] # tasks[job]
               THEN [err |-> "ValueError", flag |-> None]
               ELSE IF ~cascade /\ ~Truthy(job_ident[dependency])
               THEN [err |-> "ValueError", flag |-> None]
               ELSE IF ~Truthy(job_ident[dependency])
               THEN [err |-> ClsSubmit(dependency, task_ident, cascade), flag |-> None]
               ELSE [err |-> "none", flag |-> Format(ARRAY_DEPENDENCY(cls), job_ident[dependency])]
       ELSE LET i == FirstUnsubmitted(job)
            IN IF i # 0 /\ ~cascade
               THEN [err |-> "ValueError", flag |-> None]
               ELSE IF i # 0
               THEN [err |-> ClsSubmit(deps[i], task_ident, cascade), flag |-> None]
               ELSE [err |-> "none",
                     flag |-> Format(JOB_DEPENDENCY(cls),
                                     Join(DEPENDENCY_DELIM(cls), [k \in 1..Len(deps) |-> job_ident[deps[k]]]))]

\* if job.dependencies: command.append(self.format_dependencies(...))
DependencyOption(cls, job, task_ident, cascade) ==
    IF Dependencies(job) # <<>>
    THEN FormatDependencies(cls, job, task_ident, cascade)
    ELSE [err |-> "none", flag |-> None]

\* ------------------------------------------------------------------ submit
\* the array option of sbatch: --array=1-N or --array=k
SlurmArray(job, task_ident) ==
    IF ~IsArrayJob(job) THEN None
    ELSE IF task_ident = None THEN <<"1", "-">> \o Str(tasks[job])
    ELSE task_ident

SlurmAlreadySubmitted_Never(job) == FALSE

\* if job.job_ident: raise ValueError('Job has already been submitted ...')
SlurmAlreadySubmitted(job) == Truthy(job_ident[job])

\* SlurmScheduler.submit
SlurmSubmit(job, task_ident, cascade) ==
    /\ sched = "SLURM"
    /\ nops < MaxOps
    /\ UNCHANGED <<cumVars, checkVars>>
    /\ LET call == Call("submit", job, task_ident, cascade, FALSE)
           dep == DependencyOption("SLURM", job, task_ident, cascade)
           command == Command("sbatch", dep.flag, SlurmArray(job, task_ident), job)
       IN IF SlurmAlreadySubmitted(job) THEN Raise(call, "ValueError", <<>>, None)
          ELSE IF dep.err # "none" THEN Raise(call, dep.err, <<>>, None)
          ELSE \E out \in Outputs :
                 IF out = ProcessFailed THEN Raise(call, "CalledProcessError", <<command>>, None)
                 ELSE IF SlurmMatch(Strip(out)) = None
                 THEN Raise(call, "NotImplementedError", <<command>>, out)
                 ELSE /\ job_ident' = [job_ident EXCEPT ![job] = SlurmMatch(Strip(out))]
                      /\ status' = [status EXCEPT ![job] = "SUBMITTED"]
                      /\ last' = Outcome(call, "none", <<command>>, out)
                      /\ nops' = nops + 1
                      /\ UNCHANGED <<sched, tasks, status_comment, task_status, task_comment>>

SgeAlreadySubmitted_Never(job) == FALSE

\* if job.job_ident: raise ValueError('Job has already been submitted ...')
SgeAlreadySubmitted(job) == Truthy(job_ident[job])

\* SgeScheduler.submit; with a task_ident an array job appends a list to the command,
\* and ' '.join(command) raises TypeError before the command runs
SgeSubmit(job, task_ident, cascade) ==
    /\ sched = "SGE"
    /\ nops < MaxOps
    /\ UNCHANGED <<cumVars, checkVars>>
    /\ LET call == Call("submit", job, task_ident, cascade, FALSE)
           dep == DependencyOption("SGE", job, task_ident, cascade)
           array == IF IsArrayJob(job) THEN <<"1", "-">> \o Str(tasks[job]) ELSE None
           command == Command("qsub", dep.flag, array, job)
       IN IF SgeAlreadySubmitted(job) THEN Raise(call, "ValueError", <<>>, None)
          ELSE IF dep.err # "none" THEN Raise(call, dep.err, <<>>, None)
          ELSE IF IsArrayJob(job) /\ task_ident # None THEN Raise(call, "TypeError", <<>>, None)
          ELSE \E out \in Outputs :
                 IF out = ProcessFailed THEN Raise(call, "CalledProcessError", <<command>>, None)
                 ELSE IF SgeMatch(Strip(out)) = None
                 THEN Raise(call, "NotImplementedError", <<command>>, out)
                 ELSE /\ job_ident' = [job_ident EXCEPT ![job] = SgeMatch(Strip(out))]
                      /\ status' = [status EXCEPT ![job] = "SUBMITTED"]
                      /\ last' = Outcome(call, "none", <<command>>, out)
                      /\ nops' = nops + 1
                      /\ UNCHANGED <<sched, tasks, status_comment, task_status, task_comment>>

\* the array option of Torque's qsub: -t 1-N, -t k, or -t 1 for a one-task array
TorqueArray(job, task_ident) ==
    IF ~IsArrayJob(job) THEN None
    ELSE IF task_ident = None /\ tasks[job] # 1 THEN <<"1", "-">> \o Str(tasks[job])
    ELSE IF task_ident # None THEN task_ident
    ELSE Str(1)

\* if job.job_ident and not resubmit: raise ValueError('Job has already been submitted ...')
TorqueAlreadySubmitted(job, resubmit) == Truthy(job_ident[job]) /\ ~resubmit

\* TorqueScheduler.submit
TorqueSubmit(job, resubmit, task_ident, cascade) ==
    /\ sched = "TORQUE"
    /\ nops < MaxOps
    /\ UNCHANGED <<cumVars, checkVars>>
    /\ LET call == Call("submit", job, task_ident, cascade, resubmit)
           dep == DependencyOption("TORQUE", job, task_ident, cascade)
           command == Command("qsub", dep.flag, TorqueArray(job, task_ident), job)
       IN IF TorqueAlreadySubmitted(job, resubmit) THEN Raise(call, "ValueError", <<>>, None)
          ELSE IF dep.err # "none" THEN Raise(call, dep.err, <<>>, None)
          ELSE \E out \in Outputs :
                 IF out = ProcessFailed THEN Raise(call, "CalledProcessError", <<command>>, None)
                 ELSE /\ job_ident' = [job_ident EXCEPT ![job] = Strip(Strip(out))]
                      /\ status' = [status EXCEPT ![job] = "SUBMITTED"]
                      /\ status_comment' = [status_comment EXCEPT ![job] = EmptyStr]
                      /\ task_status' = [task_status EXCEPT ![job] = [k \in 1..tasks[job] |-> "SUBMITTED"]]
                      /\ task_comment' = [task_comment EXCEPT ![job] = [k \in 1..tasks[job] |-> EmptyStr]]
                      /\ last' = Outcome(call, "none", <<command>>, out)
                      /\ nops' = nops + 1
                      /\ UNCHANGED <<sched, tasks>>

\* ------------------------------------------------------------------ cancel
ScancelJob_Dependents(job) ==
    LET call == Call("cancel", job, None, FALSE, FALSE)
        command == Command("scancel", None, None, job_ident[job])
        hit == {job} \cup {k \in JobNames : job \in Range(Dependencies(k))}
    IN IF job_ident[job] = None THEN Raise(call, "TypeError", <<>>, None)
       ELSE /\ job_ident' = [k \in JobNames |-> IF k \in hit THEN None ELSE job_ident[k]]
            /\ status' = [k \in JobNames |-> IF k \in hit THEN "CANCELLED" ELSE status[k]]
            /\ last' = Outcome(call, "none", <<command>>, EmptyStr)
            /\ nops' = nops + 1
            /\ UNCHANGED <<sched, tasks, status_comment, task_status, task_comment>>

\* SlurmScheduler.cancel and TorqueScheduler.cancel: both run scancel; a None
\* identifier in the argument list makes subprocess raise TypeError
ScancelJob(job) ==
    LET call == Call("cancel", job, None, FALSE, FALSE)
        command == Command("scancel", None, None, job_ident[job])
    IN IF job_ident[job] = None THEN Raise(call, "TypeError", <<>>, None)
       ELSE \E out \in {ProcessFailed, EmptyStr} :
              IF out = ProcessFailed THEN Raise(call, "CalledProcessError", <<command>>, None)
              ELSE /\ job_ident' = [job_ident EXCEPT ![job] = None]
                   /\ status' = [status EXCEPT ![job] = "CANCELLED"]
                   /\ last' = Outcome(call, "none", <<command>>, out)
                   /\ nops' = nops + 1
                   /\ UNCHANGED <<sched, tasks, status_comment, task_status, task_comment>>

SlurmCancel(job) ==
    /\ sched = "SLURM"
    /\ nops < MaxOps
    /\ UNCHANGED <<cumVars, checkVars>>
    /\ ScancelJob(job)

TorqueCancel(job) ==
    /\ sched = "TORQUE"
    /\ nops < MaxOps
    /\ UNCHANGED <<cumVars, checkVars>>
    /\ ScancelJob(job)

\* SgeScheduler defines no cancel: Scheduler.cancel raises NotImplementedError
SgeCancel(job) ==
    /\ sched = "SGE"
    /\ nops < MaxOps
    /\ UNCHANGED <<cumVars, checkVars>>
    /\ Raise(Call("cancel", job, None, FALSE, FALSE), "NotImplementedError", <<>>, None)

\* ------------------------------------------------------------------ update_info
cumulative_job_state_AnyCompleted(states) ==
    IF "ERROR" \in states THEN "ERROR"
    ELSE IF "FAILED" \in states THEN "FAILED"
    ELSE IF "CANCELLED" \in states THEN "CANCELLED"
    ELSE IF "RUNNING" \in states THEN "RUNNING"
    ELSE IF "COMPLETED" \in states THEN "COMPLETED"
    ELSE IF "PENDING" \in states \/ "SUBMITTED" \in states THEN "PENDING"
    ELSE "UNKNOWN"

\* cumulative_job_state: the single status that stands for a collection of statuses
cumulative_job_state(states) ==
    IF "ERROR" \in states THEN "ERROR"
    ELSE IF "FAILED" \in states THEN "FAILED"
    ELSE IF "CANCELLED" \in states THEN "CANCELLED"
    ELSE IF "RUNNING" \in states THEN "RUNNING"
    ELSE IF "PENDING" \in states \/ "SUBMITTED" \in states THEN "PENDING"
    ELSE IF \A s \in states : s = "COMPLETED" THEN "COMPLETED"
    ELSE "UNKNOWN"

\* a job's fields while update_info runs, and the exception that ended it
JobFields(job) ==
    [status |-> status[job], status_comment |-> status_comment[job],
     task_status |-> task_status[job], task_comment |-> task_comment[job],
     updated |-> FALSE, err |-> "none"]

\* job.task_list[int(task_ident) - 1].status = ...; a Job has no task_list, a Python
\* index below zero counts from the end
SetTask(job, f, task_ident, row) ==
    LET n == Len(f.task_status)
        idx == ToInt(task_ident) - 1
        pos == IF idx < 0 THEN n + idx + 1 ELSE idx + 1
    IN IF ~IsArrayJob(job) THEN [f EXCEPT !.err = "AttributeError"]
       ELSE IF pos < 1 \/ pos > n THEN [f EXCEPT !.err = "IndexError"]
       ELSE [f EXCEPT !.task_status[pos] = row.status, !.task_comment[pos] = row.status_comment]

SetJob(f, row) ==
    [f EXCEPT !.status = row.status, !.status_comment = row.status_comment, !.updated = TRUE]

\* the assignments of update_info become the job's new fields
Store(call, job, f, cmds, rows) ==
    /\ status' = [status EXCEPT ![job] = f.status]
    /\ status_comment' = [status_comment EXCEPT ![job] = f.status_comment]
    /\ task_status' = [task_status EXCEPT ![job] = f.task_status]
    /\ task_comment' = [task_comment EXCEPT ![job] = f.task_comment]
    /\ last' = Reported(Outcome(call, f.err, cmds, None), rows)
    /\ nops' = nops + 1
    /\ UNCHANGED <<sched, tasks, job_ident>>

\* try: job.status = cumulative_job_state([t.status for t in job.task_list])
\* except AttributeError: pass
Cumulate(job, f) ==
    IF IsArrayJob(job) THEN [f EXCEPT !.status = cumulative_job_state(Range(f.task_status))] ELSE f

\* ---- SLURM
\* the last index of character c in s (0: absent)
LastIndexOf(s, c) ==
    LET at == {i \in 1..Len(s) : s[i] = c}
    IN IF at = {} THEN 0 ELSE CHOOSE i \in at : \A k \in at : k <= i

DotBatch == <<".", "b", "a", "t", "c", "h">>

\* re.sub(r'\.batch$', '', jobid)
StripBatch(jobid) == IF EndsWith(jobid, DotBatch) THEN Slice(jobid, 1, Len(jobid) - Len(DotBatch)) ELSE jobid

\* results[jobid] = row: a dict keeps the position of a key's first insertion
RECURSIVE DictPut(_, _, _)
DictPut(d, key, val) ==
    IF Len(d) = 0 THEN <<[key |-> key, val |-> val]>>
    ELSE IF d[1].key = key THEN <<[key |-> key, val |-> val]>> \o Tail(d)
    ELSE <<d[1]>> \o DictPut(Tail(d), key, val)

RECURSIVE SacctMain(_, _)
SacctMain(rows, results) ==
    IF Len(rows) = 0 THEN results
    ELSE SacctMain(Tail(rows),
                   IF rows[1].JobName # "batch"
                   THEN DictPut(results, StripBatch(rows[1].JobID), rows[1])
                   ELSE results)

\* the .batch rows fill the empty columns of the job's own row (State here: the inputs
\* have no empty JobID or JobName)
RECURSIVE SacctBatch(_, _)
SacctBatch(rows, results) ==
    IF Len(rows) = 0 THEN results
    ELSE SacctBatch(Tail(rows),
                    IF rows[1].JobName = "batch"
                    THEN [i \in 1..Len(results) |->
                            IF results[i].key = StripBatch(rows[1].JobID) /\ results[i].val.State = <<>>
                            THEN [results[i] EXCEPT !.val.State = rows[1].State]
                            ELSE results[i]]
                    ELSE results)

\* SlurmScheduler.parse_sacct on the rows of the table (State is a sequence of words)
parse_sacct(rows) ==
    LET results == SacctBatch(rows, SacctMain(rows, <<>>))
        Parsed(row) ==
            LET us == LastIndexOf(row.JobID, "_")
            IN [job_ident |-> IF us # 0 THEN Slice(row.JobID, 1, us - 1) ELSE row.JobID,
                task_ident |-> IF us # 0 THEN Slice(row.JobID, us + 1, Len(row.JobID)) ELSE None,
                status |-> IF row.State = <<>> THEN "" ELSE row.State[1],
                status_comment |-> EmptyStr]
    IN [i \in 1..Len(results) |-> Parsed(results[i].val)]

\* the row loop of SlurmScheduler.update_info
RECURSIVE SlurmRows(_, _, _)
SlurmRows(job, rows, f) ==
    IF Len(rows) = 0 \/ f.err # "none" THEN f
    ELSE SlurmRows(job, Tail(rows),
                   IF rows[1].job_ident # job_ident[job] THEN f
                   ELSE IF rows[1].task_ident # None THEN SetTask(job, f, rows[1].task_ident, rows[1])
                   ELSE SetJob(f, rows[1]))

SacctStates == {<<"PENDING">>, <<"RUNNING">>, <<"COMPLETED">>, <<"FAILED">>, <<"CANCELLED", "by", "0">>, <<"TIMEOUT">>}

SacctTaskStates == {<<"RUNNING">>, <<"COMPLETED">>, <<"FAILED">>}

OtherIdent == <<"9", "9", "9">>

SacctRow(jobid, name, state) == [JobID |-> jobid, JobName |-> name, State |-> state]

\* what sacct can print for a job: a row for the job, a row per task, both, the job's
\* row with its .batch step, a task past the end of the array, another job's row
SacctTables(ident, n) ==
    LET TaskRows(f) == [k \in 1..n |-> SacctRow(ident \o <<"_">> \o Str(k), "J", f[k])]
    IN {<<SacctRow(ident, "J", st)>> : st \in SacctStates}
       \cup {TaskRows(f) : f \in [1..n -> SacctTaskStates]}
       \cup {TaskRows([k \in 1..n |-> st]) \o <<SacctRow(ident, "J", <<"RUNNING">>)>> : st \in SacctTaskStates}
       \cup {<<SacctRow(ident, "J", <<>>), SacctRow(ident \o DotBatch, "batch", <<"COMPLETED">>)>>,
             <<SacctRow(ident \o <<"_">> \o Str(n + 1), "J", <<"COMPLETED">>)>>,
             <<SacctRow(OtherIdent, "J", <<"COMPLETED">>)>>}

\* the rows of sacct's table: identifier and State
SacctReported(table) == [i \in 1..Len(table) |-> [ident |-> table[i].JobID, state |-> table[i].State, task |-> None]]

\* SlurmScheduler.update_info
SlurmUpdate(job) ==
    /\ sched = "SLURM"
    /\ nops < MaxOps
    /\ UNCHANGED <<cumVars, checkVars>>
    /\ LET call == Call("update", job, None, FALSE, FALSE)
           command == Command("sacct", None, None, job_ident[job])
       IN IF ~Truthy(job_ident[job]) THEN Raise(call, "none", <<>>, None)
          ELSE \/ Raise(call, "CalledProcessError", <<command>>, None)
               \/ \E table \in SacctTables(job_ident[job], tasks[job]) :
                    LET f == SlurmRows(job, parse_sacct(table), JobFields(job))
                    IN Store(call, job, IF f.err = "none" /\ ~f.updated THEN Cumulate(job, f) ELSE f,
                             <<command>>, SacctReported(table))

\* ---- SGE
SGE_STATE_MAPPING_Tolerant(char) ==
    CASE char \in {"q", "h", "w"} -> "PENDING"
      [] char \in {"R", "r", "t"} -> "RUNNING"
      [] char = "d" -> "CANCELLED"
      [] char \in {"s", "E", "T"} -> "ERROR"
      [] OTHER -> "UNKNOWN"

\* STATE_MAPPING[char] of SgeScheduler ("KeyError" for a character that is no key)
SGE_STATE_MAPPING(char) ==
    CASE char \in {"q", "h", "w"} -> "PENDING"
      [] char \in {"R", "r", "t"} -> "RUNNING"
      [] char = "d" -> "CANCELLED"
      [] char \in {"s", "E", "T"} -> "ERROR"
      [] OTHER -> "KeyError"

\* SgeScheduler.convert_state
convert_state(state) ==
    LET states == {SGE_STATE_MAPPING(state[i]) : i \in 1..Len(state)}
    IN IF "KeyError" \in states THEN "KeyError" ELSE cumulative_job_state(states)

\* SgeScheduler.parse_qstat on the rows of the table: the exception raised and the rows
parse_qstat(rows) ==
    LET Parsed(row) ==
            [job_ident |-> row.job_ID,
             task_ident |-> IF row.ja_task_ID = EmptyStr \/ Range(row.ja_task_ID) \cap {",", ":", "-"} # {}
                            THEN None ELSE row.ja_task_ID,
             status |-> convert_state(row.state),
             status_comment |-> EmptyStr]
    IN IF \E i \in 1..Len(rows) : convert_state(rows[i].state) = "KeyError"
       THEN [err |-> "KeyError", rows |-> <<>>]
       ELSE [err |-> "none", rows |-> [i \in 1..Len(rows) |-> Parsed(rows[i])]]

\* sub in s
Contains(s, sub) == \E i \in 1..(Len(s) - Len(sub) + 1) : Slice(s, i, i + Len(sub) - 1) = sub

Killed == <<"(", "K", "i", "l", "l", "e", "d", ")">>

\* SgeScheduler.parse_qacct on the sections of the report
parse_qacct(rows) ==
    LET Parsed(row) ==
            LET colon == IndexIn(row.failed, ":")
            IN [job_ident |-> row.jobnumber,
                task_ident |-> row.taskid,
                status |-> IF row.exit_status = <<"0">> /\ row.failed = <<"0">> THEN "COMPLETED"
                           ELSE IF Contains(row.exit_status, Killed) THEN "CANCELLED"
                           ELSE "FAILED",
                status_comment |-> IF colon # 0 THEN Strip(Slice(row.failed, colon + 1, Len(row.failed)))
                                   ELSE EmptyStr]
    IN [i \in 1..Len(rows) |-> Parsed(rows[i])]

\* rows = [row for row in self.parse_qstat(content) if row['job_ident'] == job.job_ident]
QstatMatching_All(job, rows) == rows

QstatMatching(job, rows) == SelectSeq(rows, LAMBDA row : row.job_ident = job_ident[job])

\* the row loop of SgeScheduler.update_info
RECURSIVE SgeRows(_, _, _)
SgeRows(job, rows, f) ==
    IF Len(rows) = 0 \/ f.err # "none" THEN f
    ELSE SgeRows(job, Tail(rows),
                 IF IsArrayJob(job) /\ Truthy(rows[1].task_ident)
                 THEN SetTask(job, f, rows[1].task_ident, rows[1])
                 ELSE SetJob(f, rows[1]))

QstatRow(ident, state, task) == [job_ID |-> ident, state |-> state, ja_task_ID |-> task]

QstatStates == {<<"q", "w">>, <<"r">>, <<"E", "q", "w">>, <<"d", "r">>, <<"S">>}

\* what qstat can print: nothing, rows of other jobs, a row of the job (a pending array
\* shows its range of tasks), a row per task
QstatTables(ident, n) ==
    {<<>>, <<QstatRow(OtherIdent, <<"r">>, EmptyStr)>>, <<QstatRow(OtherIdent, <<"S">>, EmptyStr)>>}
    \cup {<<QstatRow(ident, st, EmptyStr)>> : st \in QstatStates}
    \cup {<<QstatRow(ident, <<"q", "w">>, <<"1", "-">> \o Str(n) \o <<":", "1">>)>> : k \in {m \in {n} : m > 0}}
    \cup {[k \in 1..n |-> QstatRow(ident, st, Str(k))] : st \in {t \in {<<"r">>, <<"q", "w">>} : n > 0}}
    \cup {<<QstatRow(ident, <<"r">>, Str(1)), QstatRow(ident, <<"q", "w">>, <<"2", "-">> \o Str(n) \o <<":", "1">>)>>
            : k \in {m \in {n} : m > 1}}

QacctRow(ident, task, exit_status, failed) ==
    [jobnumber |-> ident, taskid |-> task, exit_status |-> exit_status, failed |-> failed]

QacctResults ==
    {<<<<"0">>, <<"0">>>>,
     <<<<"1">>, <<"0">>>>,
     <<<<"1", "3", "7", " ", "(", "K", "i", "l", "l", "e", "d", ")">>, <<"0">>>>,
     <<<<"0">>, <<"1", "0", "0", " ", ":", " ", "a", "s", "s", "u", "m", "e", "d", "l", "y", " ", "a", "f", "t", "e", "r", " ", "j", "o", "b">>>>}

\* what qacct -j can print for a finished job: one section, or one section per task
QacctTables(ident, n) ==
    {<<QacctRow(ident, None, r[1], r[2])>> : r \in QacctResults}
    \cup {[k \in 1..n |-> QacctRow(ident, Str(k), IF k = 1 THEN r[1] ELSE <<"0">>, IF k = 1 THEN r[2] ELSE <<"0">>)]
            : r \in {q \in QacctResults : n > 0}}

\* the rows of qstat's table: job-ID, state and ja-task-ID
QstatReported(table) ==
    [i \in 1..Len(table) |-> [ident |-> table[i].job_ID, state |-> table[i].state, task |-> table[i].ja_task_ID]]

\* SgeScheduler.update_info; parse_qacct raises ValueError when qacct reports no job
SgeUpdate(job) ==
    /\ sched = "SGE"
    /\ nops < MaxOps
    /\ UNCHANGED <<cumVars, checkVars>>
    /\ LET call == Call("update", job, None, FALSE, FALSE)
           qstat == Command("qstat", None, None, None)
           qacct == Command("qacct", None, None, job_ident[job])
           Finish(rows, cmds, table) ==
               LET f == SgeRows(job, rows, JobFields(job))
               IN Store(call, job, IF f.err = "none" /\ ~f.updated THEN Cumulate(job, f) ELSE f, cmds,
                        QstatReported(table))
       IN IF ~Truthy(job_ident[job]) THEN Raise(call, "none", <<>>, None)
          ELSE \/ Raise(call, "CalledProcessError", <<qstat>>, None)
               \/ \E table \in QstatTables(job_ident[job], tasks[job]) :
                    IF parse_qstat(table).err # "none"
                    THEN RaiseWith(Reported(Outcome(call, parse_qstat(table).err, <<qstat>>, None),
                                            QstatReported(table)))
                    ELSE LET rows == QstatMatching(job, parse_qstat(table).rows)
                             Failed(err) == RaiseWith(Reported(Outcome(call, err, <<qstat, qacct>>, None),
                                                               QstatReported(table)))
                         IN IF rows # <<>> THEN Finish(rows, <<qstat>>, table)
                            ELSE \/ Failed("CalledProcessError")
                                 \/ Failed("ValueError")
                                 \/ \E report \in QacctTables(job_ident[job], tasks[job]) :
                                      Finish(parse_qacct(report), <<qstat, qacct>>, table)

\* ---- Torque
\* STATE_MAPPING[job_state] of TorqueScheduler ("KeyError" when job_state is no key)
TORQUE_STATE_MAPPING(job_state) ==
    CASE job_state = <<"C">> -> "COMPLETED"
      [] job_state \in {<<"E">>, <<"T">>, <<"R">>} -> "RUNNING"
      [] job_state \in {<<"H">>, <<"Q">>, <<"W">>} -> "PENDING"
      [] job_state = <<"S">> -> "ERROR"
      [] OTHER -> "KeyError"

\* re.match(r'^(\d+\[)(\d+)(\].*)$', job_id): the groups, or None
TorqueTaskMatch(job_id) ==
    LET aEnd == DigitRunEnd(job_id, 1)
        bEnd == DigitRunEnd(job_id, aEnd + 2)
    IN IF /\ aEnd >= 1
          /\ CharAt(job_id, aEnd + 1) = "["
          /\ bEnd >= aEnd + 2
          /\ CharAt(job_id, bEnd + 1) = "]"
          /\ \A i \in (bEnd + 2)..Len(job_id) : job_id[i] # "\n"
       THEN <<Slice(job_id, 1, aEnd + 1), Slice(job_id, aEnd + 2, bEnd), Slice(job_id, bEnd + 1, Len(job_id))>>
       ELSE None

\* TorqueScheduler.parse_qstat on the job sections of qstat -f (exit_status None: absent)
torque_parse_qstat(rows) ==
    LET Parsed(row) ==
            LET match == TorqueTaskMatch(row.Job_Id)
                mapped == TORQUE_STATE_MAPPING(row.job_state)
            IN [job_ident |-> IF match # None THEN match[1] \o match[3] ELSE row.Job_Id,
                task_ident |-> IF match # None THEN match[2] ELSE None,
                status |-> IF mapped # "COMPLETED" THEN mapped
                           ELSE IF row.exit_status = None THEN "CANCELLED"
                           ELSE IF row.exit_status # <<"0">> THEN "FAILED"
                           ELSE "COMPLETED",
                status_comment |-> EmptyStr]
    IN IF \E i \in 1..Len(rows) : TORQUE_STATE_MAPPING(rows[i].job_state) = "KeyError"
       THEN [err |-> "KeyError", rows |-> <<>>]
       ELSE [err |-> "none", rows |-> [i \in 1..Len(rows) |-> Parsed(rows[i])]]

\* the row loop of TorqueScheduler.update_info
RECURSIVE TorqueRows(_, _, _)
TorqueRows(job, rows, f) ==
    IF Len(rows) = 0 \/ f.err # "none" THEN f
    ELSE TorqueRows(job, Tail(rows),
                    IF rows[1].job_ident # job_ident[job] THEN f
                    ELSE IF IsArrayJob(job) /\ Truthy(rows[1].task_ident)
                    THEN [SetTask(job, f, rows[1].task_ident, rows[1]) EXCEPT !.updated = TRUE]
                    ELSE [SetJob(f, rows[1]) EXCEPT !.updated = f.updated])

TorqueRow(job_id, job_state, exit_status) == [Job_Id |-> job_id, job_state |-> job_state, exit_status |-> exit_status]

TorqueResults ==
    {<<<<"Q">>, None>>, <<<<"R">>, None>>, <<<<"C">>, <<"0">>>>, <<<<"C">>, <<"1">>>>, <<<<"C">>, None>>, <<<<"X">>, None>>}

\* the identifier of task k of the array whose identifier is ident: 102[].t gives 102[k].t
TorqueTaskId(ident, k) ==
    LET at == IndexIn(ident, "[")
    IN Slice(ident, 1, at) \o Str(k) \o Slice(ident, at + 1, Len(ident))

\* what qstat -f can print for a job: its section, a section per task of an array,
\* the section of another job
TorqueTables(ident, n) ==
    {<<TorqueRow(ident, r[1], r[2])>> : r \in TorqueResults}
    \cup {<<TorqueRow(OtherIdent, <<"R">>, None)>>}
    \cup {[k \in 1..n |-> TorqueRow(TorqueTaskId(ident, k), IF k = 1 THEN r[1] ELSE <<"C">>, IF k = 1 THEN r[2] ELSE <<"0">>)]
            : r \in {q \in TorqueResults : n > 0 /\ IndexIn(ident, "[") # 0}}

\* the sections of qstat -f: Job Id and job_state
TorqueReported(table) ==
    [i \in 1..Len(table) |-> [ident |-> table[i].Job_Id, state |-> table[i].job_state, task |-> None]]

\* TorqueScheduler.update_info
TorqueUpdate(job) ==
    /\ sched = "TORQUE"
    /\ nops < MaxOps
    /\ UNCHANGED <<cumVars, checkVars>>
    /\ LET call == Call("update", job, None, FALSE, FALSE)
           command == Command("qstat", None, None, job_ident[job])
       IN IF job_ident[job] = None
          THEN /\ status' = [status EXCEPT ![job] = "NOT_SUBMITTED"]
               /\ last' = Outcome(call, "none", <<>>, None)
               /\ nops' = nops + 1
               /\ UNCHANGED <<sched, tasks, job_ident, status_comment, task_status, task_comment>>
          ELSE \/ Raise(call, "CalledProcessError", <<command>>, None)
               \/ \E table \in TorqueTables(job_ident[job], tasks[job]) :
                    IF torque_parse_qstat(table).err # "none"
                    THEN RaiseWith(Reported(Outcome(call, torque_parse_qstat(table).err, <<command>>, None),
                                            TorqueReported(table)))
                    ELSE LET f == TorqueRows(job, torque_parse_qstat(table).rows, JobFields(job))
                         IN Store(call, job, IF f.err = "none" /\ f.updated THEN Cumulate(job, f) ELSE f,
                                  <<command>>, TorqueReported(table))

\* ------------------------------------------------------------------ specification
TaskArgs == {None} \cup TaskIdents

Next ==
    \/ \E job \in JobNames, task_ident \in TaskArgs, cascade \in BOOLEAN : SlurmSubmit(job, task_ident, cascade)
    \/ \E job \in JobNames, task_ident \in TaskArgs, cascade \in BOOLEAN : SgeSubmit(job, task_ident, cascade)
    \/ \E job \in JobNames, resubmit \in BOOLEAN, task_ident \in TaskArgs, cascade \in BOOLEAN :
         TorqueSubmit(job, resubmit, task_ident, cascade)
    \/ \E job \in JobNames : SlurmUpdate(job)
    \/ \E job \in JobNames : SgeUpdate(job)
    \/ \E job \in JobNames : TorqueUpdate(job)
    \/ \E job \in JobNames : SlurmCancel(job)
    \/ \E job \in JobNames : SgeCancel(job)
    \/ \E job \in JobNames : TorqueCancel(job)

Spec == Init /\ [][Next]_vars

\* ------------------------------------------------------------------ cumulative state
\* the cumulative state of a list of statuses that grows by one status at a time, as
\* the set of convert_state and the task list of an array job do
InitCumulative ==
    /\ NoScheduler
    /\ statuses = <<>>
    /\ cumulative = cumulative_job_state(Range(statuses))
    /\ NoChecker

\* states.add(state); cumulative_job_state(states)
AddState(state) ==
    /\ Len(statuses) < MaxStates
    /\ statuses' = Append(statuses, state)
    /\ cumulative' = cumulative_job_state(Range(statuses'))
    /\ UNCHANGED <<schedVars, checkVars>>

NextCumulative == \E state \in JOB_STATUS : AddState(state)

SpecCumulative == InitCumulative /\ [][NextCumulative]_vars

\* ------------------------------------------------------------------ completion checker
\* src/mavis/checker.py: LogDetails and PipelineStageRun over one stage directory.
\* The directory is given by what each glob pattern of the checker finds in it.

\* the key None of job_ids, logs and stamps
NoneId == 0

\* run_time is None
NoRunTime == -1

TaskIds == 1..MaxJobs

\* the stages that check_completion and LibraryRun make a PipelineStageRun for
StageNames == {"cluster", "validate", "annotate", "pairing", "summary"}

LineReading ==
    <<"r", "e", "a", "d", "i", "n", "g", " ", "i", "n", "p", "u", "t", "s", "\n">>

LineError ==
    <<"E", "R", "R", "O", "R", ":", " ", "s", "e", "g", "f", "a", "u", "l", "t", "\n">>

LineRunTime ==
    <<"r", "u", "n", " ", "t", "i", "m", "e", " ", "(", "s", ")", ":", " ", "4", "2", "\n">>

RunTimePrefix ==
    <<"r", "u", "n", " ", "t", "i", "m", "e", " ", "(", "s", ")", ":", " ">>

ErrorWord ==
    <<"e", "r", "r", "o", "r">>

\* a pattern that no file matches
NoFile == <<<<"NoFile">>>>

\* log files, as the lines that readlines() gives: an empty file, one that ends in an
\* error line, one without a run time line, and one with a run time line
LogFiles ==
    {<<>>,
     <<LineReading, LineError>>,
     <<LineReading>>,
     <<LineReading, LineRunTime>>}

\* re.match(r'^\s*run time \(s\): (\d+)\s*$', line): int(group(1)), or NoRunTime
RunTimeMatch(line) ==
    LET text == Strip(line)
        digits == Slice(text, Len(RunTimePrefix) + 1, Len(text))
    IN IF StartsWith(text, RunTimePrefix) /\ AllDigits(digits) THEN ToInt(digits) ELSE NoRunTime

LogDetails_RunTimeFirst(lines) ==
    LET n == Len(lines)
        hits == {i \in 1..n : i > n - 10 /\ RunTimeMatch(lines[i]) # NoRunTime}
        first == CHOOSE i \in hits : \A k \in hits : i <= k
    IN IF n = 0 THEN [status |-> "empty", message |-> None, run_time |-> NoRunTime]
       ELSE IF hits # {}
       THEN [status |-> "complete", message |-> None, run_time |-> RunTimeMatch(lines[first])]
       ELSE IF Contains(LowerStr(lines[n]), ErrorWord)
       THEN [status |-> "crash", message |-> Strip(lines[n]), run_time |-> NoRunTime]
       ELSE [status |-> "incomplete", message |-> Strip(lines[n]), run_time |-> NoRunTime]

\* LogDetails(filename) for a file with these lines (last_mod is not modelled)
LogDetails(lines) ==
    LET n == Len(lines)
        hits == {i \in 1..n : i > n - 10 /\ RunTimeMatch(lines[i]) # NoRunTime}
        first == CHOOSE i \in hits : \A k \in hits : i <= k
    IN IF n = 0 THEN [status |-> "empty", message |-> None, run_time |-> NoRunTime]
       ELSE IF Contains(LowerStr(lines[n]), ErrorWord)
       THEN [status |-> "crash", message |-> Strip(lines[n]), run_time |-> NoRunTime]
       ELSE IF hits = {}
       THEN [status |-> "incomplete", message |-> Strip(lines[n]), run_time |-> NoRunTime]
       ELSE [status |-> "complete", message |-> None, run_time |-> RunTimeMatch(lines[first])]

\* a stage directory: the task indices of its batch-<id>-<k> entries, the newest file
\* matching *.o* and *.log at its top, the log of each task (*.o*.<k>, else
\* *-<k>/*.log), its own stamp and the tasks whose subdirectory holds a stamp
Disks ==
    [dirs : SUBSET TaskIds,
     top_o : LogFiles \cup {NoFile},
     top_log : LogFiles \cup {NoFile},
     task_log : [TaskIds -> LogFiles \cup {NoFile}],
     top_stamp : BOOLEAN,
     task_stamp : SUBSET TaskIds]

\* the file that the patterns of collect_log give for a task of a stage directory, in
\* their order
FindLog(dir, name, job_task_id) ==
    IF name \in {"annotate", "validate"}
    THEN IF job_task_id \in TaskIds /\ dir.task_log[job_task_id] # NoFile
         THEN dir.task_log[job_task_id]
         ELSE dir.top_log
    ELSE IF dir.top_o # NoFile THEN dir.top_o ELSE dir.top_log

\* whether the pattern of collect_stamp finds the stamp of a task
FindStamp(dir, name, job_task_id) ==
    IF name \in {"annotate", "validate"} THEN job_task_id \in dir.task_stamp ELSE dir.top_stamp

StageRun_NoDefault(dir, name) ==
    [name |-> name,
     single |-> name \notin {"annotate", "validate", "cluster"},
     job_ids |-> IF name \notin {"annotate", "validate", "cluster"} THEN {} ELSE dir.dirs,
     logs |-> <<>>,
     stamps |-> {},
     max_run_time |-> NoRunTime,
     total_run_time |-> NoRunTime,
     avg_run_time |-> NoRunTime]

\* the object that PipelineStageRun(name, output_dir) constructs
StageRun(dir, name) ==
    [name |-> name,
     single |-> name \notin {"annotate", "validate", "cluster"},
     job_ids |-> IF name \notin {"annotate", "validate", "cluster"} THEN {}
                 ELSE IF dir.dirs = {} THEN {1}
                 ELSE dir.dirs,
     logs |-> <<>>,
     stamps |-> {},
     max_run_time |-> NoRunTime,
     total_run_time |-> NoRunTime,
     avg_run_time |-> NoRunTime]

\* PipelineStageRun.__init__
PipelineStageRun(name) ==
    /\ stage = NoStage
    /\ stage' = StageRun(disk, name)
    /\ UNCHANGED <<disk, result, schedVars, cumVars>>

\* the sets that report sorts the tasks into
MissingLogs(job_ids, logs, stamps) == {k \in job_ids : k \in stamps /\ k \notin DOMAIN logs}

Errors(job_ids, logs, stamps) ==
    {k \in job_ids : k \notin stamps /\ k \in DOMAIN logs /\ logs[k].status = "crash"}

MissingStamp(job_ids, logs, stamps) ==
    {k \in job_ids : k \notin stamps /\ k \in DOMAIN logs /\ logs[k].status = "complete"}

IncompleteJobs(job_ids, logs, stamps) ==
    {k \in job_ids : k \notin stamps /\ k \in DOMAIN logs /\ logs[k].status \notin {"crash", "complete"}}

MissingBoth_Omitted(job_ids, logs, stamps) == {}

MissingBoth(job_ids, logs, stamps) == {k \in job_ids : k \notin stamps /\ k \notin DOMAIN logs}

\* sum and max of the run times of the logs with these keys
RECURSIVE SumRunTimes(_, _)
SumRunTimes(logs, keys) ==
    IF keys = {} THEN 0
    ELSE LET k == CHOOSE x \in keys : TRUE
         IN logs[k].run_time + SumRunTimes(logs, keys \ {k})

MaxRunTime(logs, keys) == CHOOSE t \in {logs[k].run_time : k \in keys} : \A k \in keys : logs[k].run_time <= t

\* int(round(total / count, 0)): Python rounds a half to the even neighbour
RoundDiv(total, count) ==
    LET q == total \div count
        r == total % count
    IN IF 2 * r < count THEN q
       ELSE IF 2 * r > count THEN q + 1
       ELSE IF q % 2 = 0 THEN q
       ELSE q + 1

\* the loop of report over the tasks: logs[job_id] = LogDetails(collect_log(job_id)) for
\* each task whose log is found
RECURSIVE CollectLogs(_, _, _)
CollectLogs(dir, name, job_ids) ==
    IF job_ids = {} THEN <<>>
    ELSE LET job_id == CHOOSE k \in job_ids : TRUE
             others == CollectLogs(dir, name, job_ids \ {job_id})
         IN IF FindLog(dir, name, job_id) = NoFile THEN others
            ELSE (job_id :> LogDetails(FindLog(dir, name, job_id))) @@ others

\* PipelineStageRun.report on the stage object run over its directory dir: collects the
\* log and stamp of each task, sorts the tasks, logs FAIL or OK with the details, and
\* returns whether the stage succeeded. Gives what was logged and returned, and the
\* stage object as the call leaves it
ReportOf(dir, run) ==
    LET collected == run.job_ids \cup (IF run.single THEN {NoneId} ELSE {})
        job_ids == IF run.single THEN {NoneId} ELSE run.job_ids
        stamps == {k \in collected : FindStamp(dir, run.name, k)}
        Sorted(logs) ==
            LET incomplete_jobs == IncompleteJobs(job_ids, logs, stamps)
                missing_logs == MissingLogs(job_ids, logs, stamps)
                missing_stamp == MissingStamp(job_ids, logs, stamps)
                missing_both == MissingBoth(job_ids, logs, stamps)
                errors == Errors(job_ids, logs, stamps)
                nothing == job_ids = {} /\ DOMAIN logs = {} /\ stamps = {}
                problems == incomplete_jobs \cup missing_both \cup missing_logs \cup missing_stamp \cup errors
                timed == {k \in DOMAIN logs : logs[k].run_time # NoRunTime}
                ok == ~nothing /\ problems = {}
            IN [logged |-> [word |-> IF ok THEN "OK" ELSE "FAIL",
                            returned |-> IF nothing THEN FALSE
                                         ELSE (incomplete_jobs \cup missing_both \cup missing_stamp \cup errors) = {},
                            incomplete_jobs |-> incomplete_jobs,
                            missing_logs |-> missing_logs,
                            missing_stamp |-> missing_stamp,
                            missing_both |-> missing_both,
                            errors |-> errors],
                run |-> [run EXCEPT
                           !.job_ids = job_ids,
                           !.logs = logs,
                           !.stamps = stamps,
                           !.max_run_time = IF ok /\ timed # {} THEN MaxRunTime(logs, timed) ELSE @,
                           !.total_run_time = IF ok /\ timed # {} THEN SumRunTimes(logs, timed) ELSE @,
                           !.avg_run_time = IF ok /\ timed # {}
                                            THEN RoundDiv(SumRunTimes(logs, timed), Cardinality(timed))
                                            ELSE @]]
    IN CHOOSE report \in {Sorted(logs) : logs \in {CollectLogs(dir, run.name, collected)}} : TRUE

\* PipelineStageRun.report
Report ==
    /\ stage # NoStage
    /\ result = NoReport
    /\ \E report \in {ReportOf(disk, stage)} :
         /\ result' = report.logged
         /\ stage' = report.run
    /\ UNCHANGED <<disk, schedVars, cumVars>>

InitChecker ==
    /\ NoScheduler
    /\ NoCumulative
    /\ disk \in Disks
    /\ stage = NoStage
    /\ result = NoReport

NextChecker ==
    \/ \E name \in StageNames : PipelineStageRun(name)
    \/ Report

SpecChecker == InitChecker /\ [][NextChecker]_vars

\* ------------------------------------------------------------------ check_completion
\* src/mavis/checker.py: LibraryRun and check_completion over an output root. The root on
\* disk holds up to MaxLibs library directories, each with a cluster, a validate and an
\* annotate directory, and a pairing and a summary directory; any of the directories
\* may be missing.

\* a directory that does not exist: PipelineStageRun raises OSError for it
Missing == [exists |-> FALSE]

\* The stage directories are those of a pipeline that ran its tasks in order: the tasks
\* 1..n have their subdirectory, all but the last of them are complete (a complete log
\* and a stamp), and the last has its stamp with a complete log, with no log or with a
\* log that lacks the run time line. Every library but the last one is complete.
Roots ==
    LET complete == <<LineReading, LineRunTime>>
        Tasks(n, final) ==
            [dirs |-> 1..n,
             top_o |-> NoFile,
             top_log |-> NoFile,
             task_log |-> [k \in TaskIds |-> IF k < n THEN complete ELSE IF k = n THEN final ELSE NoFile],
             top_stamp |-> FALSE,
             task_stamp |-> 1..n]
        Single(outputs, stamp, logfile) ==
            [dirs |-> 1..outputs,
             top_o |-> logfile,
             top_log |-> NoFile,
             task_log |-> [k \in TaskIds |-> NoFile],
             top_stamp |-> stamp,
             task_stamp |-> {}]
        done == {Tasks(n, complete) : n \in 1..MaxJobs}
        array == {Tasks(n, final) : n \in 0..MaxJobs, final \in {complete, NoFile, <<LineReading>>}}
        clustered == {Single(n, TRUE, complete) : n \in 1..MaxJobs}
        cluster == {Single(n, stamp, complete) : n \in 0..MaxJobs, stamp \in BOOLEAN}
        single == {Single(0, TRUE, complete), Single(0, TRUE, NoFile)}
        finished == [cluster : clustered, validate : done, annotate : done]
        any == [cluster : cluster \cup {Missing},
                validate : array \cup {Missing},
                annotate : array \cup {Missing}]
        libraries == {<<>>} \cup UNION {{Append(before, lib) : before \in [1..(n - 1) -> finished], lib \in any} :
                                         n \in 1..MaxLibs}
    IN [libraries : libraries, pairing : single \cup {Missing}, summary : single \cup {Missing}]

\* LibraryRun(name, output_dir).report(): what it returns and leaves in the object, or
\* the exception it raises
LibraryReport(lib) ==
    LET cluster == IF lib.cluster = Missing THEN NoStage ELSE StageRun(lib.cluster, "cluster")
        validation == IF lib.validate = Missing THEN NoStage ELSE StageRun(lib.validate, "validate")
        annotation == IF lib.annotate = Missing THEN NoStage ELSE StageRun(lib.annotate, "annotate")
        collective_job_ids ==
            cluster.job_ids \cup annotation.job_ids \cup (IF validation # NoStage THEN validation.job_ids ELSE {})
        Ran(dir, run) ==
            IF run = NoStage THEN [logged |-> NoReport, run |-> NoStage]
            ELSE ReportOf(dir, [run EXCEPT !.job_ids = collective_job_ids])
        Timed(reports) ==
            {i \in DOMAIN reports : reports[i].run # NoStage /\ reports[i].run.max_run_time # NoRunTime}
        Total(reports, field) ==
            LET RECURSIVE Sum(_)
                Sum(keys) == IF keys = {} THEN 0
                             ELSE LET i == CHOOSE k \in keys : TRUE
                                  IN reports[i].run[field] + Sum(keys \ {i})
            IN Sum(Timed(reports))
        Finish(reports) ==
            [raised |-> "none",
             result |-> /\ reports[1].logged.returned
                        /\ (validation # NoStage => reports[2].logged.returned)
                        /\ reports[3].logged.returned,
             job_ids |-> [i \in DOMAIN reports |-> IF reports[i].run = NoStage THEN {} ELSE reports[i].run.job_ids],
             cluster |-> reports[1].logged,
             validation |-> reports[2].logged,
             annotation |-> reports[3].logged,
             max_run_time |-> Total(reports, "max_run_time"),
             total_run_time |-> Total(reports, "total_run_time"),
             avg_run_time |-> Total(reports, "avg_run_time"),
             log_parse_error |-> \E i \in DOMAIN reports : reports[i].run # NoStage /\ i \notin Timed(reports)]
    IN IF cluster = NoStage \/ annotation = NoStage
       THEN [raised |-> "AttributeError"]
       ELSE CHOOSE report \in {Finish(reports) : reports \in {<<Ran(lib.cluster, cluster),
                                                                 Ran(lib.validate, validation),
                                                                 Ran(lib.annotate, annotation)>>}} : TRUE

\* check_completion(target_dir): reports every library, then pairing and summary, logs
\* the run times and returns success_flag, or raises
check_completion ==
    /\ result = NoReport
    /\ LET RECURSIVE Reports(_)
           Reports(libraries) ==
               IF libraries = <<>> THEN <<>>
               ELSE <<LibraryReport(Head(libraries))>> \o Reports(Tail(libraries))
           Counted(libs) == {i \in DOMAIN libs : libs[i].max_run_time # 0}
           RECURSIVE Sum(_, _, _)
           Sum(libs, field, keys) ==
               IF keys = {} THEN 0
               ELSE LET i == CHOOSE k \in keys : TRUE
                    IN libs[i][field] + Sum(libs, field, keys \ {i})
           Stages(runs, field) ==
               (IF runs[1].run.max_run_time # NoRunTime THEN runs[1].run[field] ELSE 0)
               + (IF runs[2].run.max_run_time # NoRunTime THEN runs[2].run[field] ELSE 0)
           Finish(libs, runs) ==
               [raised |-> "none",
                success_flag |-> /\ \A i \in DOMAIN libs : libs[i].result
                                 /\ runs[1].logged.returned
                                 /\ runs[2].logged.returned,
                libraries |-> libs,
                summary |-> runs[1].logged,
                pairing |-> runs[2].logged,
                max_run_time |-> Sum(libs, "max_run_time", Counted(libs)) + Stages(runs, "max_run_time"),
                total_run_time |-> Sum(libs, "total_run_time", Counted(libs)) + Stages(runs, "total_run_time"),
                log_parse_error |-> \/ \E i \in DOMAIN libs : libs[i].log_parse_error
                                    \/ \E i \in DOMAIN runs : runs[i].run.max_run_time = NoRunTime]
       IN \E libs \in {Reports(disk.libraries)} :
            IF \/ \E i \in DOMAIN libs : libs[i].raised # "none"
               \/ disk.pairing = Missing
               \/ disk.summary = Missing
            THEN result' = [raised |-> "AttributeError"]
            ELSE \E runs \in {<<ReportOf(disk.summary, StageRun(disk.summary, "summary")),
                                ReportOf(disk.pairing, StageRun(disk.pairing, "pairing"))>>} :
                    result' = Finish(libs, runs)
    /\ UNCHANGED <<disk, stage, schedVars, cumVars>>

InitCompletion ==
    /\ NoScheduler
    /\ NoCumulative
    /\ disk \in Roots
    /\ stage = NoStage
    /\ result = NoReport

SpecCompletion == InitCompletion /\ [][check_completion]_vars

\* ------------------------------------------------------------------ main.py check
\* src/mavis/main.py: the check of the 'checker' step, which main.py implements on its
\* own. A stamp on disk is <<>> when the file is missing and <<t>> when it was created
\* at time t. The root holds at most one library directory.

\* parse_runtime_from_log(log_file): the run time, or NoRunTime where it raises OSError
parse_runtime_from_log(lines) ==
    LET n == Len(lines)
        hits == {i \in 1..n : i > n - 10 /\ RunTimeMatch(lines[i]) # NoRunTime}
    IN IF hits = {} THEN NoRunTime
       ELSE RunTimeMatch(lines[CHOOSE i \in hits : \A k \in hits : i <= k])

\* The files of a task or of a single job are: a stamp of any time with a complete log,
\* a stamp without a log, a stamp with a log that lacks the run time line, or nothing.
\* The clustering directory holds its stamp or not and the output files of job_count
\* tasks; files of tasks beyond job_count are not looked at and are left out.
TimedRoots ==
    LET stamped == {<<t>> : t \in 1..MaxTime}
        files == {[stamp |-> stamp, logfile |-> <<LineReading, LineRunTime>>] : stamp \in stamped}
                   \cup {[stamp |-> <<1>>, logfile |-> NoFile],
                         [stamp |-> <<1>>, logfile |-> <<LineReading>>],
                         [stamp |-> <<>>, logfile |-> NoFile]}
        Stage(job_count) ==
            {files_of \in [TaskIds -> files] :
                \A k \in TaskIds : k > job_count => files_of[k] = [stamp |-> <<>>, logfile |-> NoFile]}
        library == UNION {[clustering : [stamp : stamped \cup {<<>>}, job_count : {job_count}],
                           validation : Stage(job_count),
                           annotation : Stage(job_count)] : job_count \in 0..MaxJobs}
                     \cup {[clustering |-> Missing,
                            validation |-> [k \in TaskIds |-> [stamp |-> <<>>, logfile |-> NoFile]],
                            annotation |-> [k \in TaskIds |-> [stamp |-> <<>>, logfile |-> NoFile]]]}
    IN [libraries : {<<>>} \cup {<<lib>> : lib \in library},
        pairing : files \cup {Missing},
        summary : files \cup {Missing}]

\* check_single_job(directory) without the stamp time in what it returns
check_single_job_NoStamp(dir) ==
    IF dir.stamp = <<>>
    THEN [raised |-> "none", word |-> "FAIL", stamp |-> <<>>, rt |-> NoRunTime]
    ELSE IF dir.logfile = NoFile
    THEN [raised |-> "TypeError", word |-> "OK", stamp |-> <<>>, rt |-> NoRunTime]
    ELSE IF parse_runtime_from_log(dir.logfile) = NoRunTime
    THEN [raised |-> "OSError", word |-> "OK", stamp |-> <<>>, rt |-> NoRunTime]
    ELSE [raised |-> "none", word |-> "OK", stamp |-> <<>>, rt |-> parse_runtime_from_log(dir.logfile)]

\* check_single_job(directory) for a directory that exists: the stamp time and the run
\* time it returns and the word it logs, or the exception it raises
check_single_job(dir) ==
    IF dir.stamp = <<>>
    THEN [raised |-> "none", word |-> "FAIL", stamp |-> <<>>, rt |-> NoRunTime]
    ELSE IF dir.logfile = NoFile
    THEN [raised |-> "TypeError", word |-> "OK", stamp |-> <<>>, rt |-> NoRunTime]
    ELSE IF parse_runtime_from_log(dir.logfile) = NoRunTime
    THEN [raised |-> "OSError", word |-> "OK", stamp |-> <<>>, rt |-> NoRunTime]
    ELSE [raised |-> "none", word |-> "OK", stamp |-> dir.stamp, rt |-> parse_runtime_from_log(dir.logfile)]

\* check_library_dir(library_dir): the words it logs for the validation and annotation
\* stages, the ordering errors it logs, and the newest stamp time and the run times it
\* returns, or the exception it raises
check_library_dir(lib) ==
    LET job_count == lib.clustering.job_count
        jobs == 1..job_count
        Stamps(files_of) == {k \in jobs : files_of[k].stamp # <<>>}
        Logs(files_of) == {k \in jobs : files_of[k].logfile # NoFile}
        Timed(files_of) == Stamps(files_of) \cap Logs(files_of)
        Unparsed(files_of) == {k \in Timed(files_of) : parse_runtime_from_log(files_of[k].logfile) = NoRunTime}
        Word(files_of) == IF Stamps(files_of) = jobs /\ Logs(files_of) = jobs THEN "OK" ELSE "FAIL"
        both == Timed(lib.validation) \cap Timed(lib.annotation)
        max_rt == {parse_runtime_from_log(lib.validation[k].logfile)
                     + parse_runtime_from_log(lib.annotation[k].logfile) : k \in both}
        RECURSIVE Sum(_)
        Sum(keys) == IF keys = {} THEN 0
                     ELSE LET k == CHOOSE x \in keys : TRUE
                          IN parse_runtime_from_log(lib.validation[k].logfile)
                               + parse_runtime_from_log(lib.annotation[k].logfile) + Sum(keys \ {k})
        stamp_times == {lib.validation[k].stamp[1] : k \in Stamps(lib.validation)}
                         \cup {lib.annotation[k].stamp[1] : k \in Stamps(lib.annotation)}
    IN IF lib.clustering = Missing THEN [raised |-> "OSError"]
       ELSE IF lib.clustering.stamp = <<>> \/ job_count = 0 THEN [raised |-> "OSError"]
       ELSE IF Unparsed(lib.validation) \cup Unparsed(lib.annotation) # {} THEN [raised |-> "OSError"]
       ELSE [raised |-> "none",
             validation |-> Word(lib.validation),
             annotation |-> Word(lib.annotation),
             errors |-> {[before |-> "clustering", after |-> "validation", job |-> k] :
                           k \in {j \in Stamps(lib.validation) :
                                    lib.validation[j].stamp[1] < lib.clustering.stamp[1]}}
                          \cup {[before |-> "validation", after |-> "annotation", job |-> k] :
                                  k \in {j \in Stamps(lib.validation) \cap Stamps(lib.annotation) :
                                           lib.annotation[j].stamp[1] < lib.validation[j].stamp[1]}},
             last_timestamp |-> IF stamp_times = {} THEN <<>>
                                ELSE <<CHOOSE t \in stamp_times : \A u \in stamp_times : u <= t>>,
             max_rt |-> IF max_rt = {} THEN NoRunTime ELSE CHOOSE t \in max_rt : \A u \in max_rt : u <= t,
             total_rt |-> IF max_rt = {} THEN NoRunTime ELSE Sum(both)]

\* main() for the 'checker' step: check_completion(args.output) of main.py, then exit(0).
\* The library directory is visited before 'pairing' and 'summary' (sorted names). An
\* exception that leaves check_completion ends the interpreter with exit code 1.
main ==
    /\ result = NoReport
    /\ \E libs \in {[i \in 1..Len(disk.libraries) |-> check_library_dir(disk.libraries[i])]},
          pairing \in {IF disk.pairing = Missing
                         THEN [raised |-> "none", word |-> "", stamp |-> <<>>, rt |-> NoRunTime]
                         ELSE check_single_job(disk.pairing)},
          summary \in {IF disk.summary = Missing
                         THEN [raised |-> "none", word |-> "", stamp |-> <<>>, rt |-> NoRunTime]
                         ELSE check_single_job(disk.summary)} :
          LET library_stamps == {libs[i].last_timestamp[1] :
                                   i \in {j \in 1..Len(libs) : libs[j].last_timestamp # <<>>}}
              library_stamp == IF library_stamps = {} THEN <<>>
                               ELSE <<CHOOSE t \in library_stamps : \A u \in library_stamps : u <= t>>
              Rt(rt) == IF rt = NoRunTime THEN 0 ELSE rt
              RECURSIVE Sum(_, _)
              Sum(i, total) == IF i = 0 THEN 0
                               ELSE Sum(i - 1, total)
                                      + IF libs[i].max_rt = NoRunTime \/ libs[i].max_rt = 0 THEN 0
                                        ELSE IF total THEN libs[i].total_rt ELSE libs[i].max_rt
          IN IF \E i \in 1..Len(libs) : libs[i].raised # "none"
             THEN result' = [raised |-> libs[CHOOSE i \in 1..Len(libs) : libs[i].raised # "none"].raised,
                             exit_code |-> 1]
             ELSE IF pairing.raised # "none"
             THEN result' = [raised |-> pairing.raised, exit_code |-> 1]
             ELSE IF summary.raised # "none"
             THEN result' = [raised |-> summary.raised, exit_code |-> 1]
             ELSE IF \/ pairing.stamp # <<>> /\ library_stamp = <<>>
                     \/ summary.stamp # <<>> /\ pairing.stamp = <<>>
             THEN result' = [raised |-> "TypeError", exit_code |-> 1]
             ELSE result' = [raised |-> "none",
                             exit_code |-> 0,
                             libraries |-> libs,
                             pairing |-> pairing.word,
                             summary |-> summary.word,
                             errors |-> {[before |-> "library", after |-> "pairing"] : x \in
                                           {y \in {1} : /\ pairing.stamp # <<>>
                                                        /\ pairing.stamp[1] < library_stamp[1]}}
                                          \cup {[before |-> "pairing", after |-> "summary"] : x \in
                                                  {y \in {1} : /\ summary.stamp # <<>>
                                                               /\ summary.stamp[1] < pairing.stamp[1]}},
                             pipeline_total_rt |-> Sum(Len(libs), TRUE) + Rt(pairing.rt) + Rt(summary.rt),
                             pipeline_max_rt |-> Sum(Len(libs), FALSE) + Rt(pairing.rt) + Rt(summary.rt)]
    /\ UNCHANGED <<disk, stage, schedVars, cumVars>>

InitMain ==
    /\ NoScheduler
    /\ NoCumulative
    /\ disk \in TimedRoots
    /\ stage = NoStage
    /\ result = NoReport

SpecMain == InitMain /\ [][main]_vars

\* ------------------------------------------------------------------ task ranges
\* convert_set_to_ranges(input_set) with every range rendered by its start alone
convert_set_to_ranges_Starts(input_set) ==
    LET RECURSIVE Ordered(_)
        Ordered(S) == IF S = {} THEN <<>>
                      ELSE LET low == CHOOSE x \in S : \A y \in S : x <= y
                           IN <<low>> \o Ordered(S \ {low})
        RECURSIVE Merge(_, _)
        Merge(ranges, rest) ==
            IF rest = <<>> THEN ranges
            ELSE IF ranges # <<>> /\ ranges[Len(ranges)][2] + 1 = Head(rest)
            THEN Merge([ranges EXCEPT ![Len(ranges)] = <<@[1], Head(rest)>>], Tail(rest))
            ELSE Merge(Append(ranges, <<Head(rest), Head(rest)>>), Tail(rest))
    IN Join(<<",", " ">>, CHOOSE texts \in {[i \in 1..Len(ranges) |-> Str(ranges[i][1])] :
                                              ranges \in {Merge(<<>>, Ordered(input_set))}} : TRUE)

\* convert_set_to_ranges(input_set) without the merge of consecutive values
convert_set_to_ranges_NoMerge(input_set) ==
    LET RECURSIVE Ordered(_)
        Ordered(S) == IF S = {} THEN <<>>
                      ELSE LET low == CHOOSE x \in S : \A y \in S : x <= y
                           IN <<low>> \o Ordered(S \ {low})
    IN Join(<<",", " ">>, CHOOSE texts \in {[i \in 1..Len(values) |-> Str(values[i])] :
                                              values \in {Ordered(input_set)}} : TRUE)

\* convert_set_to_ranges(input_set): the sorted values, consecutive values merged into
\* (start, end), each range rendered as 'start' or 'start-end', joined by ', '
convert_set_to_ranges(input_set) ==
    LET RECURSIVE Ordered(_)
        Ordered(S) == IF S = {} THEN <<>>
                      ELSE LET low == CHOOSE x \in S : \A y \in S : x <= y
                           IN <<low>> \o Ordered(S \ {low})
        RECURSIVE Merge(_, _)
        Merge(ranges, rest) ==
            IF rest = <<>> THEN ranges
            ELSE IF ranges # <<>> /\ ranges[Len(ranges)][2] + 1 = Head(rest)
            THEN Merge([ranges EXCEPT ![Len(ranges)] = <<@[1], Head(rest)>>], Tail(rest))
            ELSE Merge(Append(ranges, <<Head(rest), Head(rest)>>), Tail(rest))
        Render(range) == IF range[1] = range[2] THEN Str(range[1])
                         ELSE Str(range[1]) \o <<"-">> \o Str(range[2])
    IN Join(<<",", " ">>, CHOOSE texts \in {[i \in 1..Len(ranges) |-> Render(ranges[i])] :
                                              ranges \in {Merge(<<>>, Ordered(input_set))}} : TRUE)

\* The sets of task indices handed to convert_set_to_ranges.
InitRanges ==
    /\ NoScheduler
    /\ NoCumulative
    /\ disk \in [input_set : SUBSET (1..MaxIndex)]
    /\ stage = NoStage
    /\ result = NoReport

ConvertSet ==
    /\ result = NoReport
    /\ result' = [ranges |-> convert_set_to_ranges(disk.input_set)]
    /\ UNCHANGED <<disk, stage, schedVars, cumVars>>

SpecRanges == InitRanges /\ [][ConvertSet]_vars

\* ------------------------------------------------------------------ setup
\* src/mavis/main.py main_pipeline: the setup of the pipeline. The disk holds, for every
\* alias, how many times <output>/converted_inputs/<alias>.tab was written (0: the file
\* does not exist) and the qsub scripts that exist. A section of the configuration is a
\* library with its list of inputs; a path is <<file>> for an input taken as it is and
\* <<"converted_inputs", alias>> for a converted file.

\* The conversion of one input with the file always generated
Convert_Always(convert_config, converted, input_file, outcome) ==
    IF input_file \notin DOMAIN convert_config
    THEN [converted |-> converted, executed |-> {}, failed |-> {}, raised |-> "none", input |-> <<input_file>>]
    ELSE IF outcome[input_file] = "ok"
    THEN [converted |-> [converted EXCEPT ![input_file] = @ + 1],
          executed |-> {[alias |-> input_file, written |-> converted[input_file]]},
          failed |-> {}, raised |-> "none", input |-> <<"converted_inputs", input_file>>]
    ELSE [converted |-> IF outcome[input_file] = "partial"
                        THEN [converted EXCEPT ![input_file] = @ + 1] ELSE converted,
          executed |-> {[alias |-> input_file, written |-> converted[input_file]]},
          failed |-> {input_file},
          raised |-> IF convert_config[input_file] = "convert_tool_output"
                     THEN "Exception" ELSE "CalledProcessError",
          input |-> <<>>]

\* The conversion of one input with a failure of the command passed over
Convert_NoRaise(convert_config, converted, input_file, outcome) ==
    IF input_file \notin DOMAIN convert_config
    THEN [converted |-> converted, executed |-> {}, failed |-> {}, raised |-> "none", input |-> <<input_file>>]
    ELSE IF converted[input_file] > 0
    THEN [converted |-> converted, executed |-> {}, failed |-> {}, raised |-> "none",
          input |-> <<"converted_inputs", input_file>>]
    ELSE [converted |-> IF outcome[input_file] # "fail"
                        THEN [converted EXCEPT ![input_file] = @ + 1] ELSE converted,
          executed |-> {[alias |-> input_file, written |-> converted[input_file]]},
          failed |-> IF outcome[input_file] = "ok" THEN {} ELSE {input_file},
          raised |-> "none",
          input |-> <<"converted_inputs", input_file>>]

\* The body of 'for input_file in sec.inputs': an input that is no alias is taken as it
\* is; the command of an alias runs when the converted file does not exist, and the path
\* of the converted file is the input. A command that succeeds writes the file; a
\* failed command raises, convert_tool_output before the file is written, an external
\* command with or without the file written ("partial").
Convert(convert_config, converted, input_file, outcome) ==
    IF input_file \notin DOMAIN convert_config
    THEN [converted |-> converted, executed |-> {}, failed |-> {}, raised |-> "none", input |-> <<input_file>>]
    ELSE IF converted[input_file] > 0
    THEN [converted |-> converted, executed |-> {}, failed |-> {}, raised |-> "none",
          input |-> <<"converted_inputs", input_file>>]
    ELSE IF outcome[input_file] = "ok"
    THEN [converted |-> [converted EXCEPT ![input_file] = @ + 1],
          executed |-> {[alias |-> input_file, written |-> converted[input_file]]},
          failed |-> {}, raised |-> "none", input |-> <<"converted_inputs", input_file>>]
    ELSE [converted |-> IF outcome[input_file] = "partial"
                        THEN [converted EXCEPT ![input_file] = @ + 1] ELSE converted,
          executed |-> {[alias |-> input_file, written |-> converted[input_file]]},
          failed |-> {input_file},
          raised |-> IF convert_config[input_file] = "convert_tool_output"
                     THEN "Exception" ELSE "CalledProcessError",
          input |-> <<>>]

\* The pairing and summary scripts with the pairing job held on nothing
PipelineScripts_NoHold(annotation_jobs, rand) ==
    {[directory |-> <<"pairing">>, name |-> <<"mavis_pairing", rand>>, worker |-> "pairing",
      tasks |-> 0, hold_jid |-> <<>>],
     [directory |-> <<"summary">>, name |-> <<"mavis_summary">>, worker |-> "summary",
      tasks |-> 0, hold_jid |-> <<<<"mavis_pairing", rand>>>>]}

\* The qsub scripts of pairing, held on all of the annotation jobs, and of summary, held
\* on the pairing job
PipelineScripts(annotation_jobs, rand) ==
    {[directory |-> <<"pairing">>, name |-> <<"mavis_pairing", rand>>, worker |-> "pairing",
      tasks |-> 0, hold_jid |-> annotation_jobs],
     [directory |-> <<"summary">>, name |-> <<"mavis_summary">>, worker |-> "summary",
      tasks |-> 0, hold_jid |-> <<<<"mavis_pairing", rand>>>>]}

\* main_pipeline(args, configs, convert_config): one setup run on the output root. The
\* outcome of every conversion command, the number of files that clustering puts out
\* for every library and the random number of the job names are the run's to choose.
\* Every section has the same disease status and protocol, which are left out of the
\* names.
main_pipeline ==
    /\ stage.runs < MaxRuns
    /\ \E rand \in 1..MaxRand,
          outputs \in [1..Len(stage.configs) -> 0..MaxJobs],
          outcome \in {o \in [DOMAIN stage.convert_config -> {"ok", "fail", "partial"}] :
                         \A alias \in DOMAIN stage.convert_config :
                            o[alias] = "partial" => stage.convert_config[alias] # "convert_tool_output"} :
          LET RECURSIVE Conversions(_, _)
              Conversions(converted, files) ==
                  IF files = <<>>
                  THEN [converted |-> converted, executed |-> {}, failed |-> {}, raised |-> "none",
                        inputs |-> <<>>]
                  ELSE LET one == Convert(stage.convert_config, converted, Head(files), outcome)
                       IN IF one.raised # "none"
                          THEN [converted |-> one.converted, executed |-> one.executed,
                                failed |-> one.failed, raised |-> one.raised, inputs |-> <<>>]
                          ELSE LET rest == Conversions(one.converted, Tail(files))
                               IN [converted |-> rest.converted,
                                   executed |-> one.executed \cup rest.executed,
                                   failed |-> one.failed \cup rest.failed,
                                   raised |-> rest.raised,
                                   inputs |-> <<one.input>> \o rest.inputs]
              LibraryScripts(library, count) ==
                  IF count = 0 THEN {}
                  ELSE {[directory |-> <<library, "validation">>, name |-> <<"validation", library, rand>>,
                         worker |-> "validate", tasks |-> count, hold_jid |-> <<>>],
                        [directory |-> <<library, "annotation">>, name |-> <<"annotation", library, rand>>,
                         worker |-> "annotate", tasks |-> count,
                         hold_jid |-> <<<<"validation", library, rand>>>>]}
              RECURSIVE Libraries(_, _)
              Libraries(i, acc) ==
                  IF i > Len(stage.configs) THEN acc
                  ELSE \* the conversions of the section, bound once
                       CHOOSE next \in
                         {IF conv.raised # "none"
                          THEN [acc EXCEPT !.converted = conv.converted,
                                           !.executed = @ \cup conv.executed,
                                           !.failed = @ \cup conv.failed,
                                           !.failed_at = IF @ = 0 THEN i ELSE @,
                                           !.raised = conv.raised]
                          ELSE Libraries(i + 1,
                                 [acc EXCEPT !.converted = conv.converted,
                                             !.executed = @ \cup conv.executed,
                                             !.failed = @ \cup conv.failed,
                                             !.failed_at = IF @ = 0 /\ conv.failed # {} THEN i ELSE @,
                                             !.inputs = Append(@, conv.inputs),
                                             !.in_process = @ \cup {"cluster"},
                                             !.written = @ \cup LibraryScripts(stage.configs[i].library, outputs[i]),
                                             !.annotation_jobs =
                                                 IF outputs[i] = 0 THEN @
                                                 ELSE Append(@, <<"annotation", stage.configs[i].library, rand>>)])
                            : conv \in {Conversions(acc.converted, stage.configs[i].inputs)}} : TRUE
          IN \E run \in {Libraries(1, [converted |-> disk.converted, executed |-> {}, failed |-> {},
                                       failed_at |-> 0, raised |-> "none", inputs |-> <<>>,
                                       in_process |-> {}, written |-> {}, annotation_jobs |-> <<>>])} :
                \E written \in {IF run.raised # "none" THEN run.written
                                ELSE run.written \cup PipelineScripts(run.annotation_jobs, rand)} :
                   /\ disk' = [converted |-> run.converted,
                               scripts |-> disk.scripts \cup {script.directory : script \in written}]
                   /\ result' = [raised |-> run.raised,
                                 executed |-> run.executed,
                                 failed |-> run.failed,
                                 failed_at |-> run.failed_at,
                                 inputs |-> run.inputs,
                                 in_process |-> run.in_process,
                                 written |-> written,
                                 outputs |-> outputs]
    /\ stage' = [stage EXCEPT !.runs = @ + 1]
    /\ UNCHANGED <<schedVars, cumVars>>

\* Before the first setup run: an empty output root, a configuration of up to MaxLibs
\* libraries with one or two inputs each, and the conversion commands of two aliases.
InitSetup ==
    /\ NoScheduler
    /\ NoCumulative
    /\ disk = [converted |-> [alias \in {"a", "b"} |-> 0], scripts |-> {}]
    /\ stage \in [configs : UNION {{configs \in [1..n -> [library : {<<"L">> \o Str(i) : i \in 1..n},
                                                            inputs : UNION {[1..k -> {"a", "b", "f"}] : k \in 1..2}]] :
                                       \A i \in 1..n : configs[i].library = <<"L">> \o Str(i)} : n \in 0..MaxLibs},
                  convert_config : {[a |-> "convert_tool_output", b |-> "command"]},
                  runs : {0}]
    /\ result = NoReport

SpecSetup == InitSetup /\ [][main_pipeline]_vars

\* ------------------------------------------------------------------ build manifest
\* Pipeline.read_build_file of mavis/schedule/pipeline.py, after spec section 4.4 and
\* TestReadBuildFile.test_basic. A manifest is the list of its job sections, each with
\* the job's name, its stage and the names in its 'dependencies' entry; the job names of
\* a manifest are unique and every dependency names a section of the manifest. A job
\* object is known by its place in the list of job objects, 0 being None.

\* read_build_file with every dependency resolved to the job of the section before
read_build_file_Previous ==
    /\ result = NoReport
    /\ LET sections == disk.manifest
           Staged(tag) == {i \in 1..Len(sections) : sections[i].stage = tag}
           RECURSIVE Filed(_, _)
           Filed(tag, i) == IF i > Len(sections) THEN <<>>
                            ELSE (IF i \in Staged(tag) THEN <<i>> ELSE <<>>) \o Filed(tag, i + 1)
           Only(tag) == IF Staged(tag) = {} THEN 0 ELSE CHOOSE i \in Staged(tag) : TRUE
       IN result' = [jobs |-> [i \in 1..Len(sections) |->
                                 [name |-> sections[i].name,
                                  stage |-> sections[i].stage,
                                  dependencies |-> [k \in 1..Len(sections[i].dependencies) |-> i - 1]]],
                     validations |-> Filed("validate", 1),
                     annotations |-> Filed("annotate", 1),
                     pairing |-> Only("pairing"),
                     summary |-> Only("summary")]
    /\ UNCHANGED <<disk, stage, schedVars, cumVars>>

\* read_build_file(filepath): one job object per job section, every name of its
\* dependencies entry resolved to the job object of the section with that name, and
\* the jobs filed under their stages in the order of the file
read_build_file ==
    /\ result = NoReport
    /\ LET sections == disk.manifest
           Named(name) == CHOOSE i \in 1..Len(sections) : sections[i].name = name
           Staged(tag) == {i \in 1..Len(sections) : sections[i].stage = tag}
           RECURSIVE Filed(_, _)
           Filed(tag, i) == IF i > Len(sections) THEN <<>>
                            ELSE (IF i \in Staged(tag) THEN <<i>> ELSE <<>>) \o Filed(tag, i + 1)
           Only(tag) == IF Staged(tag) = {} THEN 0 ELSE CHOOSE i \in Staged(tag) : TRUE
       IN result' = [jobs |-> [i \in 1..Len(sections) |->
                                 [name |-> sections[i].name,
                                  stage |-> sections[i].stage,
                                  dependencies |-> [k \in 1..Len(sections[i].dependencies) |->
                                                      Named(sections[i].dependencies[k])]]],
                     validations |-> Filed("validate", 1),
                     annotations |-> Filed("annotate", 1),
                     pairing |-> Only("pairing"),
                     summary |-> Only("summary")]
    /\ UNCHANGED <<disk, stage, schedVars, cumVars>>

\* The manifests of up to MaxSections job sections: names that are distinct and ascend or
\* descend through the file, stages in any order with at most one pairing and one
\* summary job, and as dependencies of every job none, the first, the last or all of
\* the jobs of the stage before its own.
InitManifest ==
    /\ NoScheduler
    /\ NoCumulative
    /\ disk \in
         LET names == [i \in 1..MaxSections |-> <<"j", "o", "b">> \o Str(i)]
             before == [validate |-> "", annotate |-> "validate", pairing |-> "annotate",
                        summary |-> "pairing"]
             RECURSIVE Listed(_, _, _)
             Listed(title, ids, i) == IF i > Len(title) THEN <<>>
                                      ELSE (IF i \in ids THEN <<title[i]>> ELSE <<>>)
                                             \o Listed(title, ids, i + 1)
             Chosen(feeding, mode) ==
                 IF feeding = {} \/ mode = "none" THEN {}
                 ELSE IF mode = "first" THEN {CHOOSE i \in feeding : \A k \in feeding : i <= k}
                 ELSE IF mode = "last" THEN {CHOOSE i \in feeding : \A k \in feeding : i >= k}
                 ELSE feeding
         IN UNION {{[manifest |-> [i \in 1..n |->
                                     [name |-> title[i],
                                      stage |-> tags[i],
                                      dependencies |->
                                          Listed(title, Chosen({k \in 1..n : tags[k] = before[tags[i]]}, mode), 1)]]] :
                       tags \in {t \in [1..n -> {"validate", "annotate", "pairing", "summary"}] :
                                   /\ Cardinality({i \in 1..n : t[i] = "pairing"}) <= 1
                                   /\ Cardinality({i \in 1..n : t[i] = "summary"}) <= 1},
                       title \in {[i \in 1..n |-> names[i]], [i \in 1..n |-> names[n + 1 - i]]},
                       mode \in {"none", "first", "last", "all"}} :
                     n \in 0..MaxSections}
    /\ stage = NoStage
    /\ result = NoReport

SpecManifest == InitManifest /\ [][read_build_file]_vars

\* ------------------------------------------------------------------ log parsing
\* LogDetails on its own: the file on disk is drawn from the log files of up to MaxLines
\* lines of which at most MaxMarked are an error line, a run time line or a run time
\* line of 0 seconds; every other line is ordinary output

LongLogFiles ==
    LET marked == {LineError, LineRunTime, RunTimePrefix \o <<"0", "\n">>}
        Files(n) ==
            UNION {{[i \in 1..n |-> IF i \in at THEN mark[i] ELSE LineReading] : mark \in [at -> marked]} :
                    at \in {a \in SUBSET (1..n) : Cardinality(a) <= MaxMarked}}
    IN UNION {Files(n) : n \in 0..MaxLines}

InitLogDetails ==
    /\ NoScheduler
    /\ NoCumulative
    /\ disk \in {[lines |-> lines] : lines \in LongLogFiles}
    /\ stage = NoStage
    /\ result = NoReport

\* LogDetails(filename) reads the file
ReadLog ==
    /\ result = NoReport
    /\ result' = LogDetails(disk.lines)
    /\ UNCHANGED <<disk, stage, schedVars, cumVars>>

SpecLogDetails == InitLogDetails /\ [][ReadLog]_vars

\* ------------------------------------------------------------------ properties
\* every step of Spec is one call; last' is that call and its outcome

DepSet(job) == Range(Dependencies(job))

IsSubmission(cmd) == cmd.tool \in {"sbatch", "qsub"}

C3_Identifier(cls, content) ==
    CASE cls = "SLURM" /\ content = RespSlurmA -> <<"1", "0", "0">>
      [] cls = "SLURM" /\ content = RespSlurmB -> <<"1", "0", "1">>
      [] cls = "SGE" /\ content = RespSgeA -> <<"1", "0", "0">>
      [] cls = "SGE" /\ content = RespSgeB -> <<"1", "0", "1">>
      [] cls = "TORQUE" /\ content = RespTorque -> <<"1", "0", "2", "[", "]", ".", "t">>
      [] OTHER -> None

\* C3: a submit of an unsubmitted job whose command printed a response of the
\* back-end's form returns with the response's identifier in the job and the job
\* SUBMITTED
C3_SubmitSetsIdentifier ==
    (/\ last.op = "submit"
     /\ ~last.resubmit
     /\ last.content # None
     /\ C3_Identifier(sched, last.content) # None)
      => /\ last.err = "none"
         /\ job_ident[last.job] = C3_Identifier(sched, last.content)
         /\ status[last.job] = "SUBMITTED"

C3_Witness ==
    /\ sched = "SGE"
    /\ last.op = "submit"
    /\ last.content = RespSgeB
    /\ job_ident[last.job] = <<"1", "0", "1">>
    /\ status[last.job] = "SUBMITTED"

\* the responses that carry an identifier of the back-end's form (Torque: any
\* output that is not empty)
C4_Matches(cls, content) ==
    CASE cls = "SLURM" -> content \in {RespSlurmA, RespSlurmB}
      [] cls = "SGE" -> content \in {RespSgeA, RespSgeB}
      [] cls = "TORQUE" -> content # RespEmpty

\* C4 as stated: on every back-end a submit of an unsubmitted job whose command
\* succeeded with output that carries no identifier (empty output included) raises,
\* and the job keeps an empty identifier and its status
C4_Original ==
    [][(/\ last'.op = "submit"
        /\ ~last'.resubmit
        /\ last'.content # None
        /\ ~C4_Matches(sched, last'.content))
         => /\ last'.err # "none"
            /\ ~Truthy(job_ident'[last'.job])
            /\ status'[last'.job] = status[last'.job]]_vars

\* C5: a submit without cascade of a job with a dependency that has no identifier
\* raises, runs no scheduler command, and changes no job's identifier or status
C5_MissingDependencyRejected ==
    [][(/\ last'.op = "submit"
        /\ ~last'.cascade
        /\ \E d \in DepSet(last'.job) : ~Truthy(job_ident[d]))
         => /\ last'.err # "none"
            /\ last'.cmds = <<>>
            /\ job_ident' = job_ident
            /\ status' = status]_vars

C5_Witness ==
    /\ last.op = "submit"
    /\ ~last.cascade
    /\ last.job = "P"
    /\ last.err = "ValueError"
    /\ last.cmds = <<>>
    /\ ~Truthy(job_ident["P"])
    /\ ~Truthy(job_ident["A"])
    /\ Truthy(job_ident["V"])

RECURSIVE TransitiveDeps(_)
TransitiveDeps(job) == DepSet(job) \cup UNION {TransitiveDeps(d) : d \in DepSet(job)}

\* an array job whose only dependency is an array job of another size
SizeMismatch(job) ==
    /\ IsArrayJob(job)
    /\ Len(Dependencies(job)) = 1
    /\ IsArrayJob(Dependencies(job)[1])
    /\ tasks[Dependencies(job)[1]] # tasks[job]

\* C6 as stated: a submit with cascade of an unsubmitted job with unsubmitted
\* dependencies runs the submission commands of the dependencies and of the job, and
\* when it returns the job and all its transitive dependencies are SUBMITTED with an
\* identifier
C6_Original ==
    [][(/\ last'.op = "submit"
        /\ last'.cascade
        /\ ~Truthy(job_ident[last'.job])
        /\ \A d \in TransitiveDeps(last'.job) \cup {last'.job} : ~SizeMismatch(d)
        /\ \E d \in DepSet(last'.job) : ~Truthy(job_ident[d]))
         => /\ \E i \in 1..Len(last'.cmds) : IsSubmission(last'.cmds[i])
            /\ last'.err = "none"
                 => \A d \in TransitiveDeps(last'.job) \cup {last'.job} :
                      Truthy(job_ident'[d]) /\ status'[d] = "SUBMITTED"]_vars

\* C7: whenever a submit runs the submission command of a job, every dependency of
\* that job had an identifier before the call
C7_DependenciesSubmittedFirst ==
    [][\A i \in 1..Len(last'.cmds) :
         (last'.op = "submit" /\ IsSubmission(last'.cmds[i]))
           => \A d \in DepSet(last'.cmds[i].arg) : Truthy(job_ident[d])]_vars

C7_Witness ==
    /\ last.op = "submit"
    /\ last.job = "P"
    /\ last.err = "none"
    /\ Len(last.cmds) = 1
    /\ IsSubmission(last.cmds[1])
    /\ \A d \in DepSet("P") : Truthy(job_ident[d])

\* C8 as stated: on every back-end a cancel of a job that is NOT_SUBMITTED, SUBMITTED,
\* PENDING or RUNNING, whose scheduler command does not fail, returns with the job's
\* identifier cleared and the job CANCELLED
C8_Original ==
    [][(/\ last'.op = "cancel"
        /\ last'.err # "CalledProcessError"
        /\ status[last'.job] \in {"NOT_SUBMITTED", "SUBMITTED", "PENDING", "RUNNING"})
         => /\ last'.err = "none"
            /\ ~Truthy(job_ident'[last'.job])
            /\ status'[last'.job] = "CANCELLED"]_vars

\* C9: a cancel changes the identifier, status and task statuses of no other job
C9_CancelFrame ==
    [][last'.op = "cancel"
         => \A job \in JobNames \ {last'.job} :
              /\ job_ident'[job] = job_ident[job]
              /\ status'[job] = status[job]
              /\ task_status'[job] = task_status[job]]_vars

C9_Witness ==
    /\ last.op = "cancel"
    /\ last.job = "V"
    /\ last.err = "none"
    /\ status["V"] = "CANCELLED"
    /\ Truthy(job_ident["A"])
    /\ status["A"] = "SUBMITTED"

\* the per-task dependency flag of each back-end for the identifier ident
C10_PerTaskFlag(cls, ident) ==
    CASE cls = "SLURM" ->
           <<"-", "-", "d", "e", "p", "e", "n", "d", "e", "n", "c", "y", "=", "a", "f", "t", "e", "r", "c", "o", "r", "r", ":">> \o ident
      [] cls = "SGE" -> <<"-", "h", "o", "l", "d", "_", "j", "i", "d", "_", "a", "d", " ">> \o ident
      [] cls = "TORQUE" ->
           <<"-", "W", " ", "d", "e", "p", "e", "n", "d", "=", "a", "f", "t", "e", "r", "o", "k", "a", "r", "r", "a", "y", ":">> \o ident

\* C10 as stated: the submission command of an array job whose only dependency is a
\* submitted array job with the same number of tasks carries the per-task dependency
\* flag with the dependency's identifier
C10_Original ==
    (/\ last.op = "submit"
     /\ last.job = "A"
     /\ tasks["A"] = tasks["V"]
     /\ Truthy(job_ident["V"])
     /\ last.cmds # <<>>)
      => last.cmds[1].dep = C10_PerTaskFlag(sched, job_ident["V"])

\* the after-ok flag of each back-end
C11_AfterOk(cls) ==
    CASE cls = "SLURM" ->
           <<"-", "-", "d", "e", "p", "e", "n", "d", "e", "n", "c", "y", "=", "a", "f", "t", "e", "r", "o", "k", ":">>
      [] cls = "SGE" -> <<"-", "h", "o", "l", "d", "_", "j", "i", "d", " ">>
      [] cls = "TORQUE" -> <<"-", "W", " ", "d", "e", "p", "e", "n", "d", "=", "a", "f", "t", "e", "r", "o", "k", ":">>

\* the generic dependency option of the jobs that have dependencies: A after V, P after
\* A and V in that order
C11_GenericFlag(cls, job) ==
    CASE job = "A" -> C11_AfterOk(cls) \o job_ident["V"]
      [] job = "P" -> C11_AfterOk(cls) \o job_ident["A"] \o (IF cls = "SGE" THEN <<",">> ELSE <<":">>) \o job_ident["V"]

\* the job's only dependency is a submitted array job with the same number of tasks
C11_PerTaskCase(job) ==
    /\ job = "A"
    /\ tasks["A"] = tasks["V"]
    /\ Truthy(job_ident["V"])

\* C11: the submission command of a job with dependencies, unless the job's only
\* dependency is a submitted array job with the same number of tasks, carries the
\* back-end's after-ok flag followed by the identifiers of all the dependencies in
\* declaration order, joined by ':' (SLURM, Torque) or ',' (SGE)
C11_GenericDependencyForm ==
    (/\ last.op = "submit"
     /\ last.job \in {"A", "P"}
     /\ last.cmds # <<>>
     /\ ~C11_PerTaskCase(last.job))
      => last.cmds[1].dep = C11_GenericFlag(sched, last.job)

C11_Witness ==
    /\ sched = "SGE"
    /\ last.op = "submit"
    /\ last.job = "P"
    /\ last.err = "none"
    /\ job_ident["A"] = <<"1", "0", "1">>
    /\ job_ident["V"] = <<"1", "0", "0">>
    /\ last.cmds[1].dep = <<"-", "h", "o", "l", "d", "_", "j", "i", "d", " ", "1", "0", "1", ",", "1", "0", "0">>

\* C12 as stated: a submit of an unsubmitted array job whose array dependency has
\* another number of tasks raises, runs no scheduler command and leaves the job
\* without identifier, with or without a task_ident
C12_Original ==
    [][(/\ last'.op = "submit"
        /\ ~Truthy(job_ident[last'.job])
        /\ SizeMismatch(last'.job))
         => /\ last'.err # "none"
            /\ last'.cmds = <<>>
            /\ ~Truthy(job_ident'[last'.job])]_vars

\* C13 as stated: on every back-end a submit with a task_ident of an array job that is
\* FAILED or CANCELLED, whose dependencies are submitted, runs one submission command
\* for that task only, and when the command prints a response of the back-end's form
\* the call returns and the job is SUBMITTED
C13_Original ==
    [][(/\ last'.op = "submit"
        /\ IsArrayJob(last'.job)
        /\ last'.task_ident # None
        /\ status[last'.job] \in {"FAILED", "CANCELLED"}
        /\ ~SizeMismatch(last'.job)
        /\ \A d \in DepSet(last'.job) : Truthy(job_ident[d]))
         => /\ Len(last'.cmds) = 1
            /\ last'.cmds[1].array = last'.task_ident
            /\ (last'.content # None /\ C4_Matches(sched, last'.content))
                 => (last'.err = "none" /\ status'[last'.job] = "SUBMITTED")]_vars

\* C14 as stated: no call changes the status of a job that is COMPLETED
C14_Original ==
    [][\A job \in JobNames : status[job] = "COMPLETED" => status'[job] = "COMPLETED"]_vars

\* C15 as stated: after an update the status of the job and of each of its tasks is one
\* of the nine canonical statuses
C15_Original ==
    last.op = "update"
      => /\ status[last.job] \in JOB_STATUS
         /\ \A k \in 1..tasks[last.job] : task_status[last.job][k] \in JOB_STATUS

\* the cumulative state of a collection of statuses, as C16 words it
C16_Cumulative(states) ==
    CASE "ERROR" \in states -> "ERROR"
      [] "ERROR" \notin states /\ "FAILED" \in states -> "FAILED"
      [] {"ERROR", "FAILED"} \cap states = {} /\ "CANCELLED" \in states -> "CANCELLED"
      [] {"ERROR", "FAILED", "CANCELLED"} \cap states = {} /\ "RUNNING" \in states -> "RUNNING"
      [] {"ERROR", "FAILED", "CANCELLED", "RUNNING"} \cap states = {} /\ {"PENDING", "SUBMITTED"} \cap states # {}
           -> "PENDING"
      [] states \subseteq {"COMPLETED"} -> "COMPLETED"
      [] OTHER -> "UNKNOWN"

\* C16 as stated: when an update of an array job with tasks has run its status command
\* and returned, the job's status is the cumulative state of its tasks' statuses
C16_Original ==
    (/\ last.op = "update"
     /\ last.err = "none"
     /\ last.cmds # <<>>
     /\ tasks[last.job] > 0)
      => status[last.job] = C16_Cumulative(Range(task_status[last.job]))

\* the order of C17: ERROR > FAILED > CANCELLED > RUNNING > PENDING > UNKNOWN > COMPLETED
C17_Rank(state) ==
    CASE state = "ERROR" -> 6
      [] state = "FAILED" -> 5
      [] state = "CANCELLED" -> 4
      [] state = "RUNNING" -> 3
      [] state = "PENDING" -> 2
      [] state = "UNKNOWN" -> 1
      [] state = "COMPLETED" -> 0

\* C17: adding one status to a collection of statuses never lowers its cumulative state
\* in the order ERROR > FAILED > CANCELLED > RUNNING > PENDING > UNKNOWN > COMPLETED
C17_CumulativeMonotone ==
    [][C17_Rank(cumulative') >= C17_Rank(cumulative)]_vars

C17_Witness ==
    /\ statuses = <<"COMPLETED", "NOT_SUBMITTED", "SUBMITTED">>
    /\ cumulative = "PENDING"

\* a state string that the back-end's STATE_MAPPING cannot convert: SGE looks up each
\* character, Torque the whole string
C18_Unmapped(cls, state) ==
    IF cls = "SGE"
    THEN \E i \in 1..Len(state) : state[i] \notin {"q", "h", "R", "r", "d", "s", "w", "E", "T", "t"}
    ELSE state \notin {<<"C">>, <<"E">>, <<"H">>, <<"Q">>, <<"T">>, <<"W">>, <<"S">>, <<"R">>}

\* C18: an SGE or Torque update whose status command reports a state string outside
\* the back-end's state mapping raises KeyError and changes no status of the job or of
\* its tasks
C18_UnmappedStateRaises ==
    [][(/\ last'.op = "update"
        /\ sched \in {"SGE", "TORQUE"}
        /\ \E i \in 1..Len(last'.reported) : C18_Unmapped(sched, last'.reported[i].state))
         => /\ last'.err = "KeyError"
            /\ status' = status
            /\ task_status' = task_status]_vars

C18_Witness ==
    /\ sched = "TORQUE"
    /\ last.op = "update"
    /\ last.err = "KeyError"
    /\ Len(last.reported) = 1
    /\ last.reported[1].ident = job_ident[last.job]
    /\ last.reported[1].state = <<"X">>
    /\ status[last.job] = "SUBMITTED"

\* the status of each state string of qstat that SGE's mapping converts
C19_QstatStatus(state) ==
    CASE state = <<"q", "w">> -> "PENDING"
      [] state = <<"r">> -> "RUNNING"
      [] state = <<"E", "q", "w">> -> "ERROR"
      [] state = <<"d", "r">> -> "CANCELLED"

\* the rows of the reported qstat table that carry the job's identifier
C19_Matching(job, rows) == {i \in 1..Len(rows) : rows[i].ident = job_ident[job]}

\* qstat and qacct as C19 orders them, for an update of a submitted job on SGE whose
\* qstat command did not fail: qstat first, qacct if and only if no row of qstat has
\* the job's identifier, and with such a row the status is the one qstat gave
C19_Order(before, after) ==
    LET job == after.job
        matching == C19_Matching(job, after.reported)
    IN /\ after.cmds[1].tool = "qstat"
       /\ (Len(after.cmds) = 2 /\ after.cmds[2].tool = "qacct") <=> (matching = {})
       /\ matching # {}
            => /\ Len(after.cmds) = 1
               /\ after.err = "none" => before \in {C19_QstatStatus(after.reported[i].state) : i \in matching}

\* C19 as stated
C19_Original ==
    [][(/\ sched = "SGE"
        /\ last'.op = "update"
        /\ Truthy(job_ident[last'.job])
        /\ ~(Len(last'.cmds) = 1 /\ last'.err = "CalledProcessError"))
         => C19_Order(status'[last'.job], last')]_vars

\* C19 amended: the same, for an update whose qstat output holds no state string
\* outside the state mapping (such a state, in any job's row, ends the update with
\* KeyError before qacct is run)
C19_QstatThenQacct ==
    [][(/\ sched = "SGE"
        /\ last'.op = "update"
        /\ Truthy(job_ident[last'.job])
        /\ ~(Len(last'.cmds) = 1 /\ last'.err = "CalledProcessError")
        /\ \A i \in 1..Len(last'.reported) : ~C18_Unmapped("SGE", last'.reported[i].state))
         => C19_Order(status'[last'.job], last')]_vars

C19_Witness ==
    /\ sched = "SGE"
    /\ last.op = "update"
    /\ last.err = "none"
    /\ Len(last.cmds) = 2
    /\ last.cmds[2].tool = "qacct"
    /\ Len(last.reported) = 1
    /\ last.reported[1].ident = OtherIdent
    /\ status[last.job] = "FAILED"

\* what the presence of the log and the stamp of task k says about the task
C20_Class(k) ==
    LET logfile == FindLog(disk, stage.name, k)
        stamped == FindStamp(disk, stage.name, k)
    IN IF logfile # NoFile /\ ~stamped
       THEN IF LogDetails(logfile).status = "crash" THEN "CRASH"
            ELSE IF LogDetails(logfile).status = "complete" THEN "MISSING_STAMP"
            ELSE "INCOMPLETE"
       ELSE IF logfile = NoFile /\ stamped THEN "MISSING_LOG"
       ELSE IF logfile = NoFile /\ ~stamped THEN "NOT_STARTED"
       ELSE "INSPECT_LOG"

\* C20: after a report, every task of the stage is in the set that the presence of its
\* log and stamp calls for: a log without a stamp puts it with the crashed tasks when the
\* log's state is crash, with the tasks missing a stamp when the log is complete, and
\* with the incomplete tasks otherwise; a stamp without a log puts it with the tasks
\* missing a log; neither puts it with the tasks not started. A stage with a crashed,
\* incomplete, stamp-less or not started task is logged FAIL and report returns False.
C20_ClassifiesByLogAndStamp ==
    result # NoReport =>
        /\ \A k \in stage.job_ids :
             \E class \in {C20_Class(k)} :
                /\ (k \in result.errors) = (class = "CRASH")
                /\ (k \in result.missing_stamp) = (class = "MISSING_STAMP")
                /\ (k \in result.incomplete_jobs) = (class = "INCOMPLETE")
                /\ (k \in result.missing_logs) = (class = "MISSING_LOG")
                /\ (k \in result.missing_both) = (class = "NOT_STARTED")
        /\ (\E k \in stage.job_ids : C20_Class(k) \in {"CRASH", "INCOMPLETE", "MISSING_STAMP", "NOT_STARTED"})
             => result.word = "FAIL" /\ result.returned = FALSE

\* a validate stage of two tasks was reported: task 1 has a crashed log and no stamp,
\* task 2 has neither, and the stage is logged FAIL
C20_Witness ==
    /\ result # NoReport
    /\ stage.name = "validate"
    /\ stage.job_ids = {1, 2}
    /\ C20_Class(1) = "CRASH"
    /\ C20_Class(2) = "NOT_STARTED"
    /\ result.errors = {1}
    /\ result.missing_both = {2}
    /\ result.word = "FAIL"
    /\ result.returned = FALSE

\* C21 as stated: after a report, a task that has both a log and a stamp is classified
\* by the state of its log: it is with the crashed tasks when the log ends in an error
\* line, and with the incomplete tasks when the log has no run time line
C21_Original ==
    result # NoReport =>
        \A k \in stage.job_ids :
            (FindLog(disk, stage.name, k) # NoFile /\ FindStamp(disk, stage.name, k)) =>
                \E details \in {LogDetails(FindLog(disk, stage.name, k))} :
                    /\ details.status = "crash" => k \in result.errors
                    /\ details.status = "incomplete" => k \in result.incomplete_jobs

\* the seconds that a line of a log file states as run time, if it is a run time line
C22_Seconds(line) ==
    IF line = LineRunTime THEN 42
    ELSE IF line = RunTimePrefix \o <<"0", "\n">> THEN 0
    ELSE NoRunTime

\* C22: a parsed log has exactly one state, by this precedence: a file without lines is
\* empty; else a file whose final line holds 'error' in any letter case is a crash with
\* that line as message, whether or not a run time line is among its last ten lines;
\* else a file with a run time line among its last ten lines is complete with the seconds
\* of the first such line as run time, 0 included; else the file is incomplete
C22_LogParsingPrecedence ==
    result # NoReport =>
        LET lines == disk.lines
            n == Len(lines)
            timed == {i \in 1..n : i > n - 10 /\ C22_Seconds(lines[i]) # NoRunTime}
            crashed == n > 0 /\ lines[n] = LineError
        IN /\ result.status \in {"empty", "crash", "complete", "incomplete"}
           /\ (result.status = "empty") = (n = 0)
           /\ (result.status = "crash") = crashed
           /\ crashed => result.message = SubSeq(LineError, 1, Len(LineError) - 1)
           /\ (result.status = "complete") = (n > 0 /\ ~crashed /\ timed # {})
           /\ result.status = "complete" =>
                \E first \in timed :
                    /\ \A i \in timed : first <= i
                    /\ result.run_time = C22_Seconds(lines[first])
           /\ (result.status = "incomplete") = (n > 0 /\ ~crashed /\ timed = {})

\* a log of MaxLines lines whose last line is an error line and whose line before it is
\* a run time line of 0 seconds was parsed as a crash
C22_Witness ==
    /\ result # NoReport
    /\ Len(disk.lines) = MaxLines
    /\ disk.lines[MaxLines] = LineError
    /\ C22_Seconds(disk.lines[MaxLines - 1]) = 0
    /\ result.status = "crash"
    /\ result.run_time = NoRunTime

\* a log whose only run time line states 0 seconds and is the tenth line from the end
\* was parsed as complete with run time 0
C22_ZeroRunTime ==
    /\ result # NoReport
    /\ Len(disk.lines) = MaxLines
    /\ C22_Seconds(disk.lines[MaxLines - 9]) = 0
    /\ \A i \in 1..MaxLines : i # MaxLines - 9 => disk.lines[i] = LineReading
    /\ result.status = "complete"
    /\ result.run_time = 0

\* the task indices observed in the entries of a stage directory
C23_Observed(dir) == IF dir = Missing THEN {} ELSE dir.dirs

\* the task indices observed in the three stage directories of a library
C23_Union(lib) == C23_Observed(lib.cluster) \cup C23_Observed(lib.validate) \cup C23_Observed(lib.annotate)

\* the index 1 that a stage directory without any observed index stands for
C23_Default(dir) == IF dir # Missing /\ dir.dirs = {} THEN {1} ELSE {}

\* the tasks of a validate or annotate directory without a log and without a stamp
C23_NoFiles(dir) == {k \in TaskIds : dir.task_log[k] = NoFile /\ k \notin dir.task_stamp}

\* the reports of the validate and annotate stages of a library, with their directories
C23_Stages(i) ==
    {[dir |-> disk.libraries[i].validate,
      job_ids |-> result.libraries[i].job_ids[2],
      logged |-> result.libraries[i].validation],
     [dir |-> disk.libraries[i].annotate,
      job_ids |-> result.libraries[i].job_ids[3],
      logged |-> result.libraries[i].annotation]}

\* C23 as stated: when the check returns, the tasks expected of the validate and of the
\* annotate stage of each library are exactly the indices observed in the library's
\* cluster outputs, validate subdirectories and annotate subdirectories
C23_Original ==
    (result # NoReport /\ result.raised = "none") =>
        \A i \in DOMAIN disk.libraries :
            \A run \in C23_Stages(i) :
                run.dir # Missing => run.job_ids = C23_Union(disk.libraries[i])

\* C23: when the check returns, the tasks expected of the validate and of the annotate
\* stage of each library are exactly the indices observed in the library's cluster
\* outputs, validate subdirectories and annotate subdirectories, together with index 1
\* when one of these directories exists and holds no index; and each expected task
\* that has no files in a stage is reported there as not started
C23_ExpectedTasks ==
    (result # NoReport /\ result.raised = "none") =>
        \A i \in DOMAIN disk.libraries :
            \A run \in C23_Stages(i) :
                run.dir # Missing =>
                    /\ run.job_ids = C23_Union(disk.libraries[i])
                                        \cup C23_Default(disk.libraries[i].cluster)
                                        \cup C23_Default(disk.libraries[i].validate)
                                        \cup C23_Default(disk.libraries[i].annotate)
                    /\ run.job_ids \cap C23_NoFiles(run.dir) \subseteq run.logged.missing_both

\* the check returned for a library whose validate directory holds tasks 1 and 2 and whose
\* annotate directory holds task 1 only: annotate expects both and reports 2 not started
C23_Witness ==
    /\ result # NoReport
    /\ result.raised = "none"
    /\ Len(disk.libraries) = 1
    /\ disk.libraries[1].validate # Missing
    /\ C23_Observed(disk.libraries[1].validate) = {1, 2}
    /\ C23_Observed(disk.libraries[1].annotate) = {1}
    /\ result.libraries[1].job_ids[3] = {1, 2}
    /\ result.libraries[1].annotation.missing_both = {2}

\* every one of these tasks of a stage directory is complete: its stamp is present and
\* its log is present and parses as complete
C24_Complete(dir, name, job_ids) ==
    \A k \in job_ids :
        /\ FindStamp(dir, name, k)
        /\ FindLog(dir, name, k) # NoFile
        /\ LogDetails(FindLog(dir, name, k)).status = "complete"

\* C24 as stated: when check_completion returns, it returns success if and only if every
\* task of every stage is complete; a task with a stamp but no log rules success out
C24_Original ==
    (result # NoReport /\ result.raised = "none") =>
        result.success_flag =
            (/\ \A i \in DOMAIN disk.libraries :
                  LET lib == disk.libraries[i]
                      job_ids == result.libraries[i].job_ids
                  IN /\ C24_Complete(lib.cluster, "cluster", job_ids[1])
                     /\ lib.validate # Missing => C24_Complete(lib.validate, "validate", job_ids[2])
                     /\ C24_Complete(lib.annotate, "annotate", job_ids[3])
             /\ C24_Complete(disk.pairing, "pairing", {NoneId})
             /\ C24_Complete(disk.summary, "summary", {NoneId}))

\* the run time that the report of the pairing or summary stage parsed, or 0
C26_StageTime(dir, name) ==
    LET run == ReportOf(dir, StageRun(dir, name)).run
    IN IF run.max_run_time = NoRunTime THEN 0 ELSE run.max_run_time

\* C26 as stated: when check_completion returns, the parallel run time it logs is the
\* largest run time of a library plus the run times of pairing and summary
C26_Original ==
    (result # NoReport /\ result.raised = "none") =>
        \E longest \in {result.libraries[i].max_run_time : i \in DOMAIN result.libraries} \cup {0} :
            /\ \A i \in DOMAIN result.libraries : result.libraries[i].max_run_time <= longest
            /\ result.max_run_time =
                 longest + C26_StageTime(disk.pairing, "pairing") + C26_StageTime(disk.summary, "summary")

\* one of these tasks of a stage directory has no run time that could be parsed: its log
\* is missing or states no run time
C27_Unparsed(dir, name, job_ids) ==
    \E k \in job_ids :
        \/ FindLog(dir, name, k) = NoFile
        \/ LogDetails(FindLog(dir, name, k)).run_time = NoRunTime

\* C27 as stated, in the direction that the claim spells out: when check_completion
\* returns and some task of some stage has no parsed run time, the totals carry the
\* prefix 'min ', also when other tasks of that stage have a parsed run time
C27_Original ==
    (result # NoReport /\ result.raised = "none") =>
        ((\/ \E i \in DOMAIN disk.libraries :
               LET lib == disk.libraries[i]
                   job_ids == result.libraries[i].job_ids
               IN \/ C27_Unparsed(lib.cluster, "cluster", job_ids[1])
                  \/ lib.validate # Missing /\ C27_Unparsed(lib.validate, "validate", job_ids[2])
                  \/ C27_Unparsed(lib.annotate, "annotate", job_ids[3])
          \/ C27_Unparsed(disk.pairing, "pairing", {NoneId})
          \/ C27_Unparsed(disk.summary, "summary", {NoneId}))
            => result.log_parse_error)

\* C28 as stated: check_completion runs to the end on every output root, also on one
\* without a pairing or summary directory or with a library that lacks its cluster or
\* annotate directory: it raises nothing, and it returns failure when a directory is
\* missing
C28_Original ==
    result # NoReport =>
        /\ result.raised = "none"
        /\ (\/ disk.pairing = Missing
            \/ disk.summary = Missing
            \/ \E i \in DOMAIN disk.libraries :
                 disk.libraries[i].cluster = Missing \/ disk.libraries[i].annotate = Missing)
             => result.success_flag = FALSE

\* ------------------------------------------------------------------ C25
\* The pipeline of the root has a library and every stamp of it is present: the
\* clustering stamp, the validation and annotation stamp of every task, the pairing
\* stamp and the summary stamp.
C25_AllStamps ==
    /\ Len(disk.libraries) = 1
    /\ disk.libraries[1].clustering # Missing
    /\ disk.pairing # Missing
    /\ disk.summary # Missing
    /\ disk.libraries[1].clustering.stamp # <<>>
    /\ disk.libraries[1].clustering.job_count >= 1
    /\ \A k \in 1..disk.libraries[1].clustering.job_count :
          /\ disk.libraries[1].validation[k].stamp # <<>>
          /\ disk.libraries[1].annotation[k].stamp # <<>>
    /\ disk.pairing.stamp # <<>>
    /\ disk.summary.stamp # <<>>

\* Every task and single job of the root has a log with the run time line.
C25_AllRunTimes ==
    /\ \A k \in 1..disk.libraries[1].clustering.job_count :
          /\ disk.libraries[1].validation[k].logfile # NoFile
          /\ disk.libraries[1].annotation[k].logfile # NoFile
          /\ parse_runtime_from_log(disk.libraries[1].validation[k].logfile) # NoRunTime
          /\ parse_runtime_from_log(disk.libraries[1].annotation[k].logfile) # NoRunTime
    /\ disk.pairing.logfile # NoFile
    /\ disk.summary.logfile # NoFile
    /\ parse_runtime_from_log(disk.pairing.logfile) # NoRunTime
    /\ parse_runtime_from_log(disk.summary.logfile) # NoRunTime

\* The check went through, logged an error for every violated relation of
\* cluster <= validate[k] <= annotate[k] <= pairing <= summary, and logged every stage
\* and single job as complete, as the presence of their stamps and logs has it.
C25_Reported ==
    /\ result.raised = "none"
    /\ \A k \in 1..disk.libraries[1].clustering.job_count :
          /\ disk.libraries[1].validation[k].stamp[1] < disk.libraries[1].clustering.stamp[1]
               => [before |-> "clustering", after |-> "validation", job |-> k]
                    \in result.libraries[1].errors
          /\ disk.libraries[1].annotation[k].stamp[1] < disk.libraries[1].validation[k].stamp[1]
               => [before |-> "validation", after |-> "annotation", job |-> k]
                    \in result.libraries[1].errors
          /\ disk.pairing.stamp[1] < disk.libraries[1].annotation[k].stamp[1]
               => [before |-> "library", after |-> "pairing"] \in result.errors
    /\ disk.summary.stamp[1] < disk.pairing.stamp[1]
         => [before |-> "pairing", after |-> "summary"] \in result.errors
    /\ result.libraries[1].validation
         = (IF \A k \in 1..disk.libraries[1].clustering.job_count :
                  disk.libraries[1].validation[k].logfile # NoFile THEN "OK" ELSE "FAIL")
    /\ result.libraries[1].annotation
         = (IF \A k \in 1..disk.libraries[1].clustering.job_count :
                  disk.libraries[1].annotation[k].logfile # NoFile THEN "OK" ELSE "FAIL")
    /\ result.pairing = "OK"
    /\ result.summary = "OK"

C29_Original ==
    result # NoReport =>
        /\ ~C25_AllStamps => result.exit_code = 3
        /\ result.exit_code = 0 =>
              /\ C25_AllStamps
              /\ result.libraries[1].validation = "OK"
              /\ result.libraries[1].annotation = "OK"
              /\ result.pairing = "OK"
              /\ result.summary = "OK"

\* ------------------------------------------------------------------ C30
\* The tokens of a string of tokens separated by ', '.
RECURSIVE C30_Tokens(_)
C30_Tokens(s) ==
    LET cuts == {i \in 1..(Len(s) - 1) : s[i] = "," /\ s[i + 1] = " "}
    IN IF s = <<>> THEN <<>>
       ELSE IF cuts = {} THEN <<s>>
       ELSE LET cut == CHOOSE i \in cuts : \A k \in cuts : i <= k
            IN <<Slice(s, 1, cut - 1)>> \o C30_Tokens(Slice(s, cut + 2, Len(s)))

\* The set a string of tokens 'a' and 'a-b' stands for: a is {a}, a-b is a..b. A token
\* that is neither stands for the number 0, which no set of positive integers holds.
C30_Parse(s) ==
    LET Value(token) ==
            LET dashes == {i \in 1..Len(token) : token[i] = "-"}
            IN IF AllDigits(token) THEN {ToInt(token)}
               ELSE IF /\ Cardinality(dashes) = 1
                       /\ \E i \in dashes : /\ AllDigits(Slice(token, 1, i - 1))
                                            /\ AllDigits(Slice(token, i + 1, Len(token)))
               THEN LET i == CHOOSE k \in dashes : TRUE
                    IN ToInt(Slice(token, 1, i - 1))..ToInt(Slice(token, i + 1, Len(token)))
               ELSE {0}
    IN UNION {Value(token) : token \in Range(C30_Tokens(s))}

RECURSIVE C31_Runs(_, _)
C31_Runs(S, from) ==
    LET firsts == {x \in S : x >= from /\ (x - 1) \notin S}
    IN IF firsts = {} THEN <<>>
       ELSE LET first == CHOOSE x \in firsts : \A y \in firsts : x <= y
                lasts == {x \in S : x >= first /\ (x + 1) \notin S}
                end == CHOOSE x \in lasts : \A y \in lasts : x <= y
            IN <<<<first, end>>>> \o C31_Runs(S, end + 1)

C31_Token(run) ==
    IF run[1] = run[2] THEN Str(run[1]) ELSE Str(run[1]) \o <<"-">> \o Str(run[2])

C32_ConvertedOnce ==
    result # NoReport =>
        /\ \A conversion \in result.executed : conversion.written = 0
        /\ \A alias \in DOMAIN disk.converted : disk.converted[alias] <= 1
        /\ \A i \in 1..Len(result.inputs) :
              /\ Len(result.inputs[i]) = Len(stage.configs[i].inputs)
              /\ \A k \in 1..Len(result.inputs[i]) :
                    result.inputs[i][k] =
                        IF stage.configs[i].inputs[k] \in DOMAIN stage.convert_config
                        THEN <<"converted_inputs", stage.configs[i].inputs[k]>>
                        ELSE <<stage.configs[i].inputs[k]>>

\* A second setup run that executed the command of alias b and none for alias a, whose
\* converted file was there from the first run, with both paths in the input lists.
C32_Witness ==
    /\ result # NoReport
    /\ stage.runs = 2
    /\ disk.converted = [a |-> 1, b |-> 1]
    /\ result.executed = {[alias |-> "b", written |-> 0]}
    /\ \E i \in 1..Len(result.inputs) : \E k \in 1..Len(result.inputs[i]) :
          result.inputs[i][k] = <<"converted_inputs", "a">>
    /\ \E i \in 1..Len(result.inputs) : \E k \in 1..Len(result.inputs[i]) :
          result.inputs[i][k] = <<"converted_inputs", "b">>

\* ------------------------------------------------------------------ C33
\* The index of the library of a section, 0 for a name of no section.
C33_Index(library) ==
    IF \E i \in 1..Len(stage.configs) : stage.configs[i].library = library
    THEN CHOOSE i \in 1..Len(stage.configs) : stage.configs[i].library = library
    ELSE 0

\* C33: if a conversion command fails during setup, setup aborts at that point: the
\* error propagates, and no stage script (validate, annotate, pairing, summary) is
\* written for the library being processed or for any later library.
C33_ConversionFailureAborts ==
    (result # NoReport /\ result.failed # {}) =>
        /\ result.raised # "none"
        /\ \A script \in result.written :
              /\ script.worker \in {"validate", "annotate"}
              /\ C33_Index(script.directory[1]) >= 1
              /\ C33_Index(script.directory[1]) < result.failed_at

\* A setup run that wrote the scripts of the first library and was aborted by a failed
\* conversion of the second library.
C33_Witness ==
    /\ result # NoReport
    /\ result.failed # {}
    /\ result.failed_at = 2
    /\ result.raised = "CalledProcessError"
    /\ Cardinality(result.written) = 2

\* ------------------------------------------------------------------ C34
\* The scripts that a setup run wrote for a worker.
C34_Scripts(worker) == {script \in result.written : script.worker = worker}

\* C34: in the pipeline that setup produces, the pairing job is held on exactly the
\* annotate jobs of the libraries for which annotate jobs were created (a library whose
\* clustering put out nothing has none), each annotate job is held on the validate job
\* of the same library, and the summary job is held on the pairing job.
C34_Dependencies ==
    (result # NoReport /\ result.raised = "none") =>
        /\ Cardinality(C34_Scripts("pairing")) = 1
        /\ Cardinality(C34_Scripts("summary")) = 1
        /\ \A pairing \in C34_Scripts("pairing") :
              /\ Range(pairing.hold_jid) = {script.name : script \in C34_Scripts("annotate")}
              /\ \A summary \in C34_Scripts("summary") : summary.hold_jid = <<pairing.name>>
        /\ \A i \in 1..Len(stage.configs) :
              (\E script \in C34_Scripts("annotate") : script.directory[1] = stage.configs[i].library)
                 <=> result.outputs[i] > 0
        /\ \A annotate \in C34_Scripts("annotate") :
              \E validate \in C34_Scripts("validate") :
                 /\ validate.directory[1] = annotate.directory[1]
                 /\ annotate.hold_jid = <<validate.name>>

\* A setup run of two libraries, the first without clustering output, that wrote the
\* scripts of the second library, of pairing and of summary.
C34_Witness ==
    /\ result # NoReport
    /\ result.raised = "none"
    /\ Len(stage.configs) = 2
    /\ result.outputs[1] = 0
    /\ result.outputs[2] > 0
    /\ Cardinality(result.written) = 4

\* ------------------------------------------------------------------ C35
\* C35 as stated: a setup run only writes scripts and runs no analytic worker (cluster,
\* validate, annotate, pairing, summary) inside the setup process.
C35_Original ==
    result # NoReport => result.in_process = {}

\* ------------------------------------------------------------------ C36
\* C36: reading a build manifest resolves every name of a job's dependencies entry to
\* the job object of the section with that name, and files every job under its stage
\* (validate jobs in validations, annotate jobs in annotations, the pairing job as
\* pairing, the summary job as summary), so that the chain validate -> annotate ->
\* pairing -> summary can be followed through the references.
C36_ManifestResolved ==
    result # NoReport =>
        /\ Len(result.jobs) = Len(disk.manifest)
        /\ \A i \in 1..Len(disk.manifest) :
              /\ result.jobs[i].name = disk.manifest[i].name
              /\ Len(result.jobs[i].dependencies) = Len(disk.manifest[i].dependencies)
              /\ \A k \in 1..Len(disk.manifest[i].dependencies) :
                    /\ result.jobs[i].dependencies[k] \in 1..Len(result.jobs)
                    /\ result.jobs[result.jobs[i].dependencies[k]].name = disk.manifest[i].dependencies[k]
        /\ Range(result.validations) = {i \in 1..Len(disk.manifest) : disk.manifest[i].stage = "validate"}
        /\ Range(result.annotations) = {i \in 1..Len(disk.manifest) : disk.manifest[i].stage = "annotate"}
        /\ Cardinality(Range(result.validations)) = Len(result.validations)
        /\ Cardinality(Range(result.annotations)) = Len(result.annotations)
        /\ {result.pairing} \ {0} = {i \in 1..Len(disk.manifest) : disk.manifest[i].stage = "pairing"}
        /\ {result.summary} \ {0} = {i \in 1..Len(disk.manifest) : disk.manifest[i].stage = "summary"}
        /\ result.summary # 0 =>
              \A pairing \in Range(result.jobs[result.summary].dependencies) :
                 /\ pairing = result.pairing
                 /\ \A annotate \in Range(result.jobs[pairing].dependencies) :
                       /\ annotate \in Range(result.annotations)
                       /\ \A validate \in Range(result.jobs[annotate].dependencies) :
                             validate \in Range(result.validations)

\* The manifest with job4 (summary, on job3), job3 (pairing, on job2), job2 (annotate,
\* on job1) and job1 (validate) in this order, read with the chain from summary down to
\* the validate job.
C36_Witness ==
    /\ result # NoReport
    /\ Len(disk.manifest) = 4
    /\ disk.manifest[1].name = <<"j", "o", "b", "4">>
    /\ disk.manifest[1].dependencies = <<<<"j", "o", "b", "3">>>>
    /\ result.summary = 1
    /\ result.jobs[1].dependencies = <<2>>
    /\ result.pairing = 2
    /\ result.jobs[2].dependencies = <<3>>
    /\ result.annotations = <<3>>
    /\ result.jobs[3].dependencies = <<4>>
    /\ result.validations = <<4>>

\* ------------------------------------------------------------------ C37
\* C37 as stated: on every back-end an update of a job that has no identifier runs no
\* scheduler command and leaves the status of the job and of its tasks as they were, so
\* that a cancelled job stays CANCELLED.
C37_Original ==
    [][(last'.op = "update" /\ nops' = nops + 1 /\ job_ident[last'.job] = None) =>
          /\ last'.cmds = <<>>
          /\ status' = status
          /\ task_status' = task_status]_vars

\* ------------------------------------------------------------------ C38
\* C38 as stated: in every state reached through submit, update and cancel, a job with
\* status SUBMITTED, PENDING or RUNNING has a non-empty identifier.
C38_Original ==
    \A job \in JobNames :
        status[job] \in {"SUBMITTED", "PENDING", "RUNNING"} => Truthy(job_ident[job])

\* ------------------------------------------------------------------ C39
\* C39 as stated: the submission of the single task k of an array job leaves the
\* recorded status of every other task of the array, COMPLETED for one, as it was.
C39_Original ==
    [][(last'.op = "submit" /\ nops' = nops + 1 /\ last'.err = "none" /\ last'.task_ident # None) =>
          \A k \in 1..tasks[last'.job] :
              (Str(k) # last'.task_ident /\ task_status[last'.job][k] = "COMPLETED")
                 => task_status'[last'.job][k] = "COMPLETED"]_vars

====
